---- MODULE Spec2Model ----
(***************************************************************************)
(* Model of the indexing pipeline of mcp-apple-notes-rag:                  *)
(*   src/src/indexer.ts      startFullIndexing, syncNotes, processNote     *)
(*   src/unnamed/part_001    the store adapter (db.ts): notes and jobs     *)
(*   src/unnamed/part_002    schema.sql                                    *)
(*   src/src/apple-notes.ts  the note source (JXA)                         *)
(* JavaScript runs one continuation at a time, so one action is the code   *)
(* between two awaits; a store call is one SQL statement and is atomic.    *)
(***************************************************************************)
EXTENDS Integers, Sequences, FiniteSets, TLC

\* ------------------------------------------------------------------ bounds
MaxNotes == 3
MaxRuns == 2
MaxSrcChanges == 1
MaxDirect == 1

\* indexer.ts:24 sets 50; the model scales the batch to 2 so that a
\* run over MaxNotes notes has a full batch and a partial one.
BATCH_SIZE == 2

\* The number of tool calls the server handles.
MaxToolCalls == 2

\* The number of generateEmbedding calls a process makes.
MaxCallers == 3

\* The longest result list of a search and the largest limit asked for.
MaxList == 3
MaxLimit == 4

\* hybridSearch: const k = 60; // RRF parameter
RRF_K == 60

NoteIds == 1..MaxNotes
Runs == 1..MaxRuns

\* ------------------------------------------------------------------ values
\* SQL NULL / a JavaScript null or undefined: the empty tuple; a value x
\* that is present: <<x>>.
NULL == << >>
Some(x) == <<x>>

Titles == {"T1", "T2"}
Bodies == {"<p>a</p>", "<p>b</p>"}
TrashFolder == "Recently Deleted"
Folders == {"Notes", TrashFolder}

\* The note source's record of a note that does not exist.
NoNote == [present |-> FALSE, title |-> "T1", body |-> "<p>a</p>",
           folder |-> "Notes", readable |-> TRUE]

\* generateContentHash: the first 16 hex digits of the SHA-256 of the raw
\* body (the values are the real digests of the model's bodies).
generateContentHash(content) ==
    CASE content = "<p>a</p>" -> "df5ddd75e1e0e3fe"
      [] content = "<p>b</p>" -> "b8fa62ed9cd18a77"
      [] OTHER -> "e3b0c44298fc1c14"

\* htmlToMarkdown: turndown's output on the model's bodies; never throws
\* (the catch falls back to tag stripping, which gives the same text here).
htmlToMarkdown(html) ==
    CASE html = "<p>a</p>" -> "a"
      [] html = "<p>b</p>" -> "b"
      [] OTHER -> ""

\* The white space String.prototype.trim removes, as far as the model's
\* strings hold any: space, line feed, tab, carriage return.
IsWhiteSpace(ch) == ch \in {" ", "\n", "\t", "\r"}

RECURSIVE TrimStart(_)
TrimStart(str) ==
    IF Len(str) > 0 /\ IsWhiteSpace(Head(str)) THEN TrimStart(Tail(str)) ELSE str

RECURSIVE TrimEnd(_)
TrimEnd(str) ==
    IF Len(str) > 0 /\ IsWhiteSpace(SubSeq(str, Len(str), Len(str)))
    THEN TrimEnd(SubSeq(str, 1, Len(str) - 1))
    ELSE str

\* String.prototype.trim
Trim(str) == TrimEnd(TrimStart(str))

\* Mutant: the text is not trimmed.
prepareTextForEmbedding_NoTrim(title, content) == title \o "\n\n" \o content

\* prepareTextForEmbedding: `${title}\n\n${content}`.trim()
prepareTextForEmbedding(title, content) == Trim(title \o "\n\n" \o content)

\* generateEmbedding: a deterministic function of the text; the vector is
\* represented by the text it was computed from.
EmbeddingOf(text) == [of |-> text]

\* ------------------------------------------------------------------ state
VARIABLES
    source,          \* the Notes app: NoteIds -> note record
    notes,           \* table notes: a set of rows
    notes_id_seq,    \* the SERIAL sequence of notes.id (last value given)
    indexing_jobs,   \* table indexing_jobs: sequence of rows, row i has id i
    now,             \* the store's clock, read by NOW()
    run,             \* Runs -> the state of one call of startFullIndexing/syncNotes
    srcChanges,      \* number of changes made to the source so far
    directCalls,     \* number of direct store calls made so far
    statusCall,      \* the last getIndexingStatus call: its argument and its reply
    search,          \* a hybridSearch call: the two result lists and what it returns
    embedder,        \* embeddings.ts: the module's extractor and the generateEmbedding calls
    tool,            \* the tool call the server is handling, and what it has done so far
    dbInitialized,   \* index.ts: let dbInitialized
    noteCall,        \* an upsertNote call followed by getNoteByTitle: arguments and replies
    textCall         \* a prepareTextForEmbedding call: its arguments and its result

\* The calls that only read the store.
queryVars == <<statusCall, search>>

\* The state of the embedding module, of the tool handler and of a caller of
\* the store's note functions.
callVars == <<embedder, tool, dbInitialized, noteCall, textCall>>

vars == <<source, notes, notes_id_seq, indexing_jobs, now, run, srcChanges, directCalls, queryVars, callVars>>

\* ------------------------------------------------------------------ helpers
Min(S) == CHOOSE x \in S : \A y \in S : x <= y

RECURSIVE SeqOfSet(_)
\* The members of a set of integers in ascending order.
SeqOfSet(S) == IF S = {} THEN << >> ELSE <<Min(S)>> \o SeqOfSet(S \ {Min(S)})

Range(s) == {s[i] : i \in 1..Len(s)}

\* Mutant: the slice runs to the end of the array.
Slice_ToEnd(s, i) == SubSeq(s, i + 1, Len(s))

\* Array.prototype.slice(i, i + BATCH_SIZE), i 0-based.
Slice(s, i) == SubSeq(s, i + 1, IF i + BATCH_SIZE < Len(s) THEN i + BATCH_SIZE ELSE Len(s))

\* ------------------------------------------------------------------ note source
\* app.notes(): every note of the app, trashed ones included, in id order.
AppNotes == SeqOfSet({n \in NoteIds : source[n].present})

\* getAllNotesSummary: id, title, folder of every note outside the trash.
getAllNotesSummary ==
    LET all == AppNotes
        summaries == [i \in 1..Len(all) |->
                        [id |-> all[i], title |-> source[all[i]].title,
                         folder |-> source[all[i]].folder]]
    IN SelectSeq(summaries, LAMBDA s : s.folder # TrashFolder)

\* What note.properties() / note.body() give for a note of the app.
DetailsOf(n) == [id |-> n, title |-> source[n].title, content |-> source[n].body,
                 folder |-> source[n].folder]

\* getAllNotesWithDetails (bulk version): counts app.notes(), then reads the
\* index ranges; a trashed note is skipped, and so is a note whose read
\* throws inside the JXA loop ("Skip notes that error").
getAllNotesWithDetails ==
    LET all == AppNotes
        totalNotes == Len(all)
        kept == SelectSeq(all, LAMBDA n : source[n].folder # TrashFolder /\ source[n].readable)
    IN [i \in 1..Len(kept) |-> DetailsOf(kept[i])]

\* getNoteDetailsById: the note's details, or null when the lookup or a read
\* throws inside the JXA try block (no such note, unreadable note).
getNoteDetailsById(noteId) ==
    IF source[noteId].present /\ source[noteId].readable
    THEN Some(DetailsOf(noteId))
    ELSE NULL

\* ------------------------------------------------------------------ store: notes
\* Mutant: ON CONFLICT DO NOTHING (an existing row is left as it is).
UpsertRows_DoNothing(rows, note, newId, at) ==
    IF \E r \in rows : r.apple_note_id = Some(note.apple_note_id)
    THEN rows
    ELSE rows \cup {[id |-> newId,
                     apple_note_id |-> Some(note.apple_note_id),
                     title |-> note.title,
                     content |-> note.content,
                     html_content |-> note.html_content,
                     folder_path |-> note.folder_path,
                     content_hash |-> note.content_hash,
                     embedding |-> note.embedding,
                     indexed_at |-> at]}

\* Mutant: the table is emptied before the row is written.
UpsertRows_Truncate(rows, note, newId, at) ==
    {[id |-> newId,
      apple_note_id |-> Some(note.apple_note_id),
      title |-> note.title,
      content |-> note.content,
      html_content |-> note.html_content,
      folder_path |-> note.folder_path,
      content_hash |-> note.content_hash,
      embedding |-> note.embedding,
      indexed_at |-> at]}

\* Mutant: a plain INSERT with no unique constraint on apple_note_id.
UpsertRows_Insert(rows, note, newId, at) ==
    rows \cup {[id |-> newId,
                apple_note_id |-> Some(note.apple_note_id),
                title |-> note.title,
                content |-> note.content,
                html_content |-> note.html_content,
                folder_path |-> note.folder_path,
                content_hash |-> note.content_hash,
                embedding |-> note.embedding,
                indexed_at |-> at]}

\* INSERT ... ON CONFLICT (apple_note_id) DO UPDATE ...: the row with the
\* note's apple_note_id is overwritten, or a new row is added under newId.
UpsertRows(rows, note, newId, at) ==
    IF \E r \in rows : r.apple_note_id = Some(note.apple_note_id)
    THEN {IF r.apple_note_id = Some(note.apple_note_id)
          THEN [r EXCEPT !.title = note.title,
                         !.content = note.content,
                         !.html_content = note.html_content,
                         !.folder_path = note.folder_path,
                         !.content_hash = note.content_hash,
                         !.embedding = note.embedding,
                         !.indexed_at = at]
          ELSE r : r \in rows}
    ELSE rows \cup {[id |-> newId,
                     apple_note_id |-> Some(note.apple_note_id),
                     title |-> note.title,
                     content |-> note.content,
                     html_content |-> note.html_content,
                     folder_path |-> note.folder_path,
                     content_hash |-> note.content_hash,
                     embedding |-> note.embedding,
                     indexed_at |-> at]}

\* The id upsertNote returns (RETURNING id).
UpsertedId(rows, note) == (CHOOSE r \in rows : r.apple_note_id = Some(note.apple_note_id)).id

\* Mutant: the map of stored hashes is empty.
getAllNoteHashes_Empty == [n \in {} |-> ""]

\* getAllNoteHashes: apple_note_id -> content_hash over the rows that have
\* both; a row whose content_hash is NULL is left out of the map.
getAllNoteHashes ==
    LET rows == {r \in notes : r.apple_note_id # NULL /\ r.content_hash # NULL}
    IN [n \in {r.apple_note_id[1] : r \in rows} |->
          (CHOOSE r \in rows : r.apple_note_id = Some(n)).content_hash[1]]

\* DELETE FROM notes WHERE apple_note_id = ANY(ids)
DeleteRows(rows, ids) == {r \in rows : ~(r.apple_note_id # NULL /\ r.apple_note_id[1] \in ids)}

\* The rows of one apple_note_id.
RowsOf(rows, n) == {r \in rows : r.apple_note_id = Some(n)}

\* ------------------------------------------------------------------ store: jobs
\* Mutant: the INSERT leaves status out, so the row takes the schema's default.
NewJob_DefaultStatus(id, totalNotes, at) ==
    [id |-> id, started_at |-> at, completed_at |-> NULL, total_notes |-> totalNotes,
     processed_notes |-> 0, failed_notes |-> 0, status |-> "pending"]

\* createIndexingJob: INSERT (total_notes, status 'running'); the other
\* columns take the schema's defaults.
NewJob(id, totalNotes, at) ==
    [id |-> id, started_at |-> at, completed_at |-> NULL, total_notes |-> totalNotes,
     processed_notes |-> 0, failed_notes |-> 0, status |-> "running"]

\* Mutant: the counters are added to the stored ones instead of replacing them.
updateJobProgress_Adds(jobs, jobId, processedNotes, failedNotes) ==
    [i \in 1..Len(jobs) |->
        IF jobs[i].id = jobId
        THEN [jobs[i] EXCEPT !.processed_notes = @ + processedNotes, !.failed_notes = @ + failedNotes]
        ELSE jobs[i]]

\* Mutant: the UPDATE has no WHERE clause and writes every running job.
updateJobProgress_AllRunning(jobs, jobId, processedNotes, failedNotes) ==
    [i \in 1..Len(jobs) |->
        IF jobs[i].id = jobId \/ jobs[i].status = "running"
        THEN [jobs[i] EXCEPT !.processed_notes = processedNotes, !.failed_notes = failedNotes]
        ELSE jobs[i]]

\* updateJobProgress: UPDATE ... SET processed_notes, failed_notes WHERE id
updateJobProgress(jobs, jobId, processedNotes, failedNotes) ==
    [i \in 1..Len(jobs) |->
        IF jobs[i].id = jobId
        THEN [jobs[i] EXCEPT !.processed_notes = processedNotes, !.failed_notes = failedNotes]
        ELSE jobs[i]]

\* Mutant: the UPDATE has no WHERE clause and stamps every job.
completeJob_AllRows(jobs, jobId, status, at) ==
    [i \in 1..Len(jobs) |-> [jobs[i] EXCEPT !.status = status, !.completed_at = Some(at)]]

\* completeJob: UPDATE ... SET status, completed_at = NOW() WHERE id
completeJob(jobs, jobId, status, at) ==
    [i \in 1..Len(jobs) |->
        IF jobs[i].id = jobId
        THEN [jobs[i] EXCEPT !.status = status, !.completed_at = Some(at)]
        ELSE jobs[i]]

\* getJobStatus: SELECT * FROM indexing_jobs WHERE id = $1; rows[0] || null
getJobStatus(jobs, jobId) ==
    LET rows == {i \in 1..Len(jobs) : jobs[i].id = jobId}
    IN IF rows = {} THEN NULL ELSE Some(jobs[CHOOSE i \in rows : TRUE])

\* Mutant: ORDER BY started_at ASC.
getLatestJob_Oldest(jobs) ==
    IF Len(jobs) = 0
    THEN NULL
    ELSE Some(jobs[CHOOSE i \in 1..Len(jobs) :
                     \A k \in 1..Len(jobs) : jobs[i].started_at <= jobs[k].started_at])

\* getLatestJob: SELECT * ... ORDER BY started_at DESC LIMIT 1; rows[0] || null
getLatestJob(jobs) ==
    IF Len(jobs) = 0
    THEN NULL
    ELSE Some(jobs[CHOOSE i \in 1..Len(jobs) :
                     \A k \in 1..Len(jobs) : jobs[k].started_at <= jobs[i].started_at])

\* getIndexingStatus(jobId?): `if (jobId)` is false for a missing argument
\* and for the number 0; any other number goes to getJobStatus.
getIndexingStatus(jobs, jobId) ==
    IF jobId # NULL /\ jobId[1] # 0
    THEN getJobStatus(jobs, jobId[1])
    ELSE getLatestJob(jobs)

\* ------------------------------------------------------------------ a run
\* The locals of one call of startFullIndexing / syncNotes, and where it is.
\*   pc: idle | list | summaries | hashes | create | delete | delprogress |
\*       await | complete | returned | threw
\* History of the call, read by the properties only: outcome (what became of
\* each note's task), embedCalls (the notes generateEmbedding was called for),
\* startRows (table notes when the call was made), endRows and endSource
\* (table notes and the Notes app when the call returned or threw).
IdleRun ==
    [op |-> "none", pc |-> "idle",
     notes |-> << >>, notesToUpdate |-> << >>, notesToDelete |-> << >>,
     appleNoteIds |-> {}, existingHashes |-> [n \in {} |-> ""],
     totalNotes |-> 0, jobId |-> 0, i |-> 0,
     processedNotes |-> 0, failedNotes |-> 0,
     tasks |-> << >>,
     outcome |-> [n \in NoteIds |-> "none"],
     embedCalls |-> {},
     startRows |-> {},
     endRows |-> {},
     endSource |-> [n \in NoteIds |-> NoNote]]

Settled(t) == t.st \in {"fulfilled", "rejected"}
AllSettled(rec) == \A k \in 1..Len(rec.tasks) : Settled(rec.tasks[k])
Active(r) == run[r].pc \notin {"idle", "returned", "threw"}
NoActiveRun == \A r \in Runs : ~Active(r)

\* The function is left (it returned or threw): its locals are gone; what
\* stays is the result it gave and the history of the call.
Leave(rec, pc) ==
    [IdleRun EXCEPT !.op = rec.op, !.pc = pc,
                    !.jobId = rec.jobId, !.totalNotes = rec.totalNotes,
                    !.processedNotes = rec.processedNotes, !.failedNotes = rec.failedNotes,
                    !.appleNoteIds = rec.appleNoteIds, !.notesToDelete = rec.notesToDelete,
                    !.outcome = rec.outcome, !.embedCalls = rec.embedCalls,
                    !.startRows = rec.startRows,
                    !.endRows = notes, !.endSource = source]

\* The top of the batch loop: the next slice's tasks are all started (each
\* runs to its first await: the embedding call for processNote, the JXA call
\* for a sync task), or the loop is over and completeJob is next.
EnterLoop(rec) ==
    IF rec.op = "full"
    THEN IF rec.i < Len(rec.notes)
         THEN LET batch == Slice(rec.notes, rec.i)
              IN [rec EXCEPT !.pc = "await",
                             !.tasks = [k \in 1..Len(batch) |->
                                          [id |-> batch[k].id, st |-> "embed",
                                           details |-> Some(batch[k]), embedding |-> NULL]],
                             !.embedCalls = @ \cup {batch[k].id : k \in 1..Len(batch)}]
         ELSE [rec EXCEPT !.pc = "complete", !.tasks = << >>]
    ELSE IF rec.i < Len(rec.notesToUpdate)
         THEN LET batch == Slice(rec.notesToUpdate, rec.i)
              IN [rec EXCEPT !.pc = "await",
                             !.tasks = [k \in 1..Len(batch) |->
                                          [id |-> batch[k], st |-> "fetch",
                                           details |-> NULL, embedding |-> NULL]]]
         ELSE [rec EXCEPT !.pc = "complete", !.tasks = << >>]

\* ------------------------------------------------------------------ startFullIndexing
StartFullIndexing(r) ==
    /\ run[r].pc = "idle"
    /\ \A q \in Runs : q < r => run[q].pc # "idle"
    /\ run' = [run EXCEPT ![r] = [IdleRun EXCEPT !.op = "full", !.pc = "list",
                                                 !.startRows = notes]]
    /\ UNCHANGED <<source, notes, notes_id_seq, indexing_jobs, now, srcChanges, directCalls, queryVars, callVars>>

\* const notes = await getAllNotesWithDetails(); totalNotes = notes.length
FullList(r) ==
    /\ run[r].op = "full" /\ run[r].pc = "list"
    /\ LET got == getAllNotesWithDetails
       IN run' = [run EXCEPT ![r] = [@ EXCEPT !.pc = "create", !.notes = got,
                                              !.totalNotes = Len(got)]]
    /\ UNCHANGED <<source, notes, notes_id_seq, indexing_jobs, now, srcChanges, directCalls, queryVars, callVars>>

\* const jobId = await createIndexingJob(totalNotes); then, for a full run,
\* the batch loop starts; for a sync, the delete step when there is one.
CreateJob(r) ==
    /\ run[r].pc = "create"
    /\ LET id == Len(indexing_jobs) + 1
           rec == [run[r] EXCEPT !.jobId = id, !.processedNotes = 0, !.failedNotes = 0, !.i = 0]
       IN /\ indexing_jobs' = Append(indexing_jobs, NewJob(id, run[r].totalNotes, now))
          /\ run' = [run EXCEPT ![r] =
                        IF rec.op = "sync" /\ Len(rec.notesToDelete) > 0
                        THEN [rec EXCEPT !.pc = "delete"]
                        ELSE EnterLoop(rec)]
    /\ now' = now + 1
    /\ UNCHANGED <<source, notes, notes_id_seq, srcChanges, directCalls, queryVars, callVars>>

\* ------------------------------------------------------------------ processNote
\* generateEmbedding returns: processNote goes on to upsertNote.
EmbedReturns(r, k) ==
    /\ run[r].pc = "await" /\ k \in 1..Len(run[r].tasks)
    /\ run[r].tasks[k].st = "embed"
    /\ LET d == run[r].tasks[k].details[1]
           text == prepareTextForEmbedding(d.title, htmlToMarkdown(d.content))
       IN run' = [run EXCEPT ![r].tasks[k] =
                     [@ EXCEPT !.st = "upsert", !.embedding = Some(EmbeddingOf(text))]]
    /\ UNCHANGED <<source, notes, notes_id_seq, indexing_jobs, now, srcChanges, directCalls, queryVars, callVars>>

\* The argument processNote gives upsertNote.
\* Mutant: the folder is not passed on.
NoteArgument_NoFolder(d, embedding) ==
    [apple_note_id |-> d.id,
     title |-> d.title,
     content |-> htmlToMarkdown(d.content),
     html_content |-> Some(d.content),
     folder_path |-> NULL,
     content_hash |-> Some(generateContentHash(d.content)),
     embedding |-> embedding]

NoteArgument(d, embedding) ==
    [apple_note_id |-> d.id,
     title |-> d.title,
     content |-> htmlToMarkdown(d.content),
     html_content |-> Some(d.content),
     folder_path |-> Some(d.folder),
     content_hash |-> Some(generateContentHash(d.content)),
     embedding |-> embedding]

\* upsertNote returns: the row is written and the task is fulfilled.
UpsertReturns(r, k) ==
    /\ run[r].pc = "await" /\ k \in 1..Len(run[r].tasks)
    /\ run[r].tasks[k].st = "upsert"
    /\ LET t == run[r].tasks[k]
       IN /\ notes' = UpsertRows(notes, NoteArgument(t.details[1], t.embedding),
                                 notes_id_seq + 1, now)
          /\ run' = [run EXCEPT ![r].tasks[k].st = "fulfilled",
                                ![r].outcome[t.id] = "stored"]
    /\ notes_id_seq' = notes_id_seq + 1
    /\ now' = now + 1
    /\ UNCHANGED <<source, indexing_jobs, srcChanges, directCalls, queryVars, callVars>>

\* The embedding call or the upsert raises: the task's promise is rejected
\* and nothing is written.
TaskThrows(r, k) ==
    /\ run[r].pc = "await" /\ k \in 1..Len(run[r].tasks)
    /\ run[r].tasks[k].st \in {"fetch", "embed", "upsert"}
    /\ run' = [run EXCEPT ![r].tasks[k].st = "rejected",
                          ![r].outcome[run[r].tasks[k].id] = "rejected"]
    /\ UNCHANGED <<source, notes, notes_id_seq, indexing_jobs, now, srcChanges, directCalls, queryVars, callVars>>

\* The loop over batchResults: the number of results with the given status.
CountStatus(tasks, status) ==
    Cardinality({k \in 1..Len(tasks) : tasks[k].st = status})

\* Promise.allSettled resolves: the results are tallied, updateJobProgress
\* writes the counters, and the loop goes on.
BatchDone(r) ==
    /\ run[r].pc = "await" /\ AllSettled(run[r])
    /\ LET rec == run[r]
           processedNotes == rec.processedNotes + CountStatus(rec.tasks, "fulfilled")
           failedNotes == rec.failedNotes + CountStatus(rec.tasks, "rejected")
       IN /\ indexing_jobs' = updateJobProgress(indexing_jobs, rec.jobId, processedNotes, failedNotes)
          /\ run' = [run EXCEPT ![r] = EnterLoop([rec EXCEPT !.processedNotes = processedNotes,
                                                             !.failedNotes = failedNotes,
                                                             !.i = rec.i + BATCH_SIZE])]
    /\ UNCHANGED <<source, notes, notes_id_seq, now, srcChanges, directCalls, queryVars, callVars>>

\* Mutant: a run with failed notes ends as a failed job.
FinalStatus_FailedOnErrors(failedNotes) == IF failedNotes = 0 THEN "completed" ELSE "failed"

\* startFullIndexing: const status = failedNotes === 0 ? "completed" : "completed";
\* syncNotes passes "completed" outright.
FinalStatus(failedNotes) == IF failedNotes = 0 THEN "completed" ELSE "completed"

\* await completeJob(jobId, status); return the result.
CompleteJob(r) ==
    /\ run[r].pc = "complete"
    /\ indexing_jobs' = completeJob(indexing_jobs, run[r].jobId,
                                    FinalStatus(run[r].failedNotes), now)
    /\ now' = now + 1
    /\ run' = [run EXCEPT ![r] = Leave(run[r], "returned")]
    /\ UNCHANGED <<source, notes, notes_id_seq, srcChanges, directCalls, queryVars, callVars>>

\* A call on the note source or the store that the run itself awaits raises
\* (listing, getAllNoteHashes, createIndexingJob, deleteNotesByAppleIds,
\* updateJobProgress, completeJob): neither function catches, so the
\* exception leaves the function and the caller gets the rejection.
AwaitedCall(rec) ==
    \/ rec.pc \in {"list", "summaries", "hashes", "create", "delete", "delprogress", "complete"}
    \/ rec.pc = "await" /\ AllSettled(rec)

RunThrows(r) ==
    /\ AwaitedCall(run[r])
    /\ run' = [run EXCEPT ![r] = Leave(run[r], "threw")]
    /\ UNCHANGED <<source, notes, notes_id_seq, indexing_jobs, now, srcChanges, directCalls, queryVars, callVars>>

\* ------------------------------------------------------------------ syncNotes
StartSync(r) ==
    /\ run[r].pc = "idle"
    /\ \A q \in Runs : q < r => run[q].pc # "idle"
    /\ run' = [run EXCEPT ![r] = [IdleRun EXCEPT !.op = "sync", !.pc = "summaries",
                                                 !.startRows = notes]]
    /\ UNCHANGED <<source, notes, notes_id_seq, indexing_jobs, now, srcChanges, directCalls, queryVars, callVars>>

\* const appleSummaries = await getAllNotesSummary(); appleNoteIds = the set of their ids
\* (notesToUpdate holds the summaries' ids until it is built in SyncHashes)
SyncSummaries(r) ==
    /\ run[r].op = "sync" /\ run[r].pc = "summaries"
    /\ LET appleSummaries == getAllNotesSummary
       IN run' = [run EXCEPT ![r] =
                     [@ EXCEPT !.pc = "hashes",
                               !.notesToUpdate = [i \in 1..Len(appleSummaries) |-> appleSummaries[i].id],
                               !.appleNoteIds = {appleSummaries[i].id : i \in 1..Len(appleSummaries)}]]
    /\ UNCHANGED <<source, notes, notes_id_seq, indexing_jobs, now, srcChanges, directCalls, queryVars, callVars>>

\* Mutant: the test on appleNoteIds is inverted.
NotesToDelete_Inverted(existingHashes, appleNoteIds) ==
    SeqOfSet({n \in DOMAIN existingHashes : n \in appleNoteIds})

\* notesToDelete: the keys of existingHashes that are not in appleNoteIds.
NotesToDelete(existingHashes, appleNoteIds) ==
    SeqOfSet({n \in DOMAIN existingHashes : n \notin appleNoteIds})

\* Mutant: only the ids with no stored hash become update candidates.
NotesToUpdate_NewOnly(summaryIds, existingHashes) ==
    SelectSeq(summaryIds, LAMBDA id : id \notin DOMAIN existingHashes)

\* notesToUpdate: the id of every summary is pushed, in the branch for a new
\* note (no existing hash) and in the branch for a stored one alike.
NotesToUpdate(summaryIds, existingHashes) ==
    SelectSeq(summaryIds, LAMBDA id : id \notin DOMAIN existingHashes \/ id \in DOMAIN existingHashes)

\* const existingHashes = await getAllNoteHashes(); notesToDelete and
\* notesToUpdate (every summary's id, in both branches) are built and
\* totalNotes is the sum of their lengths.
SyncHashes(r) ==
    /\ run[r].op = "sync" /\ run[r].pc = "hashes"
    /\ LET existingHashes == getAllNoteHashes
           notesToDelete == NotesToDelete(existingHashes, run[r].appleNoteIds)
           notesToUpdate == NotesToUpdate(run[r].notesToUpdate, existingHashes)
       IN run' = [run EXCEPT ![r] =
                     [@ EXCEPT !.pc = "create",
                               !.existingHashes = existingHashes,
                               !.notesToDelete = notesToDelete,
                               !.notesToUpdate = notesToUpdate,
                               !.totalNotes = Len(notesToUpdate) + Len(notesToDelete)]]
    /\ UNCHANGED <<source, notes, notes_id_seq, indexing_jobs, now, srcChanges, directCalls, queryVars, callVars>>

\* await deleteNotesByAppleIds(notesToDelete); processedNotes += notesToDelete.length
SyncDelete(r) ==
    /\ run[r].op = "sync" /\ run[r].pc = "delete"
    /\ notes' = DeleteRows(notes, Range(run[r].notesToDelete))
    /\ run' = [run EXCEPT ![r] = [@ EXCEPT !.pc = "delprogress",
                                           !.processedNotes = @ + Len(run[r].notesToDelete)]]
    /\ UNCHANGED <<source, notes_id_seq, indexing_jobs, now, srcChanges, directCalls, queryVars, callVars>>

\* await updateJobProgress(jobId, processedNotes, failedNotes) after the delete
SyncDelProgress(r) ==
    /\ run[r].op = "sync" /\ run[r].pc = "delprogress"
    /\ indexing_jobs' = updateJobProgress(indexing_jobs, run[r].jobId,
                                          run[r].processedNotes, run[r].failedNotes)
    /\ run' = [run EXCEPT ![r] = EnterLoop(run[r])]
    /\ UNCHANGED <<source, notes, notes_id_seq, now, srcChanges, directCalls, queryVars, callVars>>

\* Mutant: the comparison is inverted (=== for !==).
ContentChanged_Inverted(existingHashes, noteId, content) ==
    /\ noteId \in DOMAIN existingHashes
    /\ generateContentHash(content) = existingHashes[noteId]

\* Mutant: every fetched note is processed, whatever its hash.
ContentChanged_Always(existingHashes, noteId, content) == TRUE

\* Whether the sync task goes on to processNote: contentHash !== existingHash
\* (existingHash is undefined when the map has no entry for the id).
ContentChanged(existingHashes, noteId, content) ==
    \/ noteId \notin DOMAIN existingHashes
    \/ generateContentHash(content) # existingHashes[noteId]

\* getNoteDetailsById returns to a sync task: without details the task is
\* over; with details whose hash is the stored one it is over too; otherwise
\* processNote starts and calls generateEmbedding.
FetchReturns(r, k) ==
    /\ run[r].pc = "await" /\ k \in 1..Len(run[r].tasks)
    /\ run[r].tasks[k].st = "fetch"
    /\ LET t == run[r].tasks[k]
           details == getNoteDetailsById(t.id)
       IN run' = [run EXCEPT ![r] =
            IF details = NULL
            THEN [@ EXCEPT !.tasks[k].st = "fulfilled", !.outcome[t.id] = "nodetails"]
            ELSE IF ContentChanged(run[r].existingHashes, t.id, details[1].content)
                 THEN [@ EXCEPT !.tasks[k] = [t EXCEPT !.st = "embed", !.details = details],
                                !.embedCalls = @ \cup {t.id}]
                 ELSE [@ EXCEPT !.tasks[k] = [t EXCEPT !.st = "fulfilled", !.details = details],
                                !.outcome[t.id] = "skipped"]]
    /\ UNCHANGED <<source, notes, notes_id_seq, indexing_jobs, now, srcChanges, directCalls, queryVars, callVars>>

\* ------------------------------------------------------------------ the Notes app
\* The user edits, renames, trashes, deletes or creates a note, or a note
\* becomes unreadable (its properties() or body() throws).
ChangeNote(n, new) ==
    /\ srcChanges < MaxSrcChanges
    /\ new # source[n]
    /\ source' = [source EXCEPT ![n] = new]
    /\ srcChanges' = srcChanges + 1
    /\ UNCHANGED <<notes, notes_id_seq, indexing_jobs, now, run, directCalls, queryVars, callVars>>

EditNote(n) ==
    /\ source[n].present
    /\ \E b \in Bodies : ChangeNote(n, [source[n] EXCEPT !.body = b])

RenameNote(n) ==
    /\ source[n].present
    /\ \E t \in Titles : ChangeNote(n, [source[n] EXCEPT !.title = t])

TrashNote(n) ==
    /\ source[n].present
    /\ ChangeNote(n, [source[n] EXCEPT !.folder = TrashFolder])

RemoveNote(n) ==
    /\ source[n].present
    /\ ChangeNote(n, NoNote)

NoteBecomesUnreadable(n) ==
    /\ source[n].present
    /\ ChangeNote(n, [source[n] EXCEPT !.readable = FALSE])

\* ------------------------------------------------------------------ direct store calls
\* The body a direct upsertNote call writes.
DirectBodies == {"<p>b</p>"}

\* upsertNote called by a client of db.ts: html_content, content_hash and
\* embedding are optional and are stored as NULL when left out.
UpsertNoteCall(n) ==
    /\ directCalls < MaxDirect
    /\ \E b \in DirectBodies, withHash \in BOOLEAN, withEmbedding \in BOOLEAN :
         notes' = UpsertRows(notes,
                    [apple_note_id |-> n,
                     title |-> "T1",
                     content |-> htmlToMarkdown(b),
                     html_content |-> Some(b),
                     folder_path |-> NULL,
                     content_hash |-> IF withHash THEN Some(generateContentHash(b)) ELSE NULL,
                     embedding |-> IF withEmbedding
                                   THEN Some(EmbeddingOf(prepareTextForEmbedding("T1", htmlToMarkdown(b))))
                                   ELSE NULL],
                    notes_id_seq + 1, now)
    /\ notes_id_seq' = notes_id_seq + 1
    /\ now' = now + 1
    /\ directCalls' = directCalls + 1
    /\ UNCHANGED <<source, indexing_jobs, run, srcChanges, queryVars, callVars>>

\* deleteNotesByAppleIds called by a client of db.ts.
DeleteNotesCall(n) ==
    /\ directCalls < MaxDirect
    /\ notes' = DeleteRows(notes, {n})
    /\ directCalls' = directCalls + 1
    /\ UNCHANGED <<source, notes_id_seq, indexing_jobs, now, run, srcChanges, queryVars, callVars>>

\* The job operations of db.ts called by a client other than the indexer.
CreateIndexingJobCall ==
    /\ directCalls < MaxDirect
    /\ \E totalNotes \in 0..MaxNotes :
         indexing_jobs' = Append(indexing_jobs, NewJob(Len(indexing_jobs) + 1, totalNotes, now))
    /\ now' = now + 1
    /\ directCalls' = directCalls + 1
    /\ UNCHANGED <<source, notes, notes_id_seq, run, srcChanges, queryVars, callVars>>

UpdateJobProgressCall ==
    /\ directCalls < MaxDirect
    /\ \E j \in 1..Len(indexing_jobs), p \in 0..1, f \in 0..1 :
         indexing_jobs' = updateJobProgress(indexing_jobs, j, p, f)
    /\ directCalls' = directCalls + 1
    /\ UNCHANGED <<source, notes, notes_id_seq, now, run, srcChanges, queryVars, callVars>>

CompleteJobCall ==
    /\ directCalls < MaxDirect
    /\ \E j \in 1..Len(indexing_jobs), status \in {"completed", "failed"} :
         indexing_jobs' = completeJob(indexing_jobs, j, status, now)
    /\ now' = now + 1
    /\ directCalls' = directCalls + 1
    /\ UNCHANGED <<source, notes, notes_id_seq, run, srcChanges, queryVars, callVars>>

\* ------------------------------------------------------------------ queries
\* The job ids a caller asks for: none, ids that no job has (SERIAL ids
\* start at 1) and the ids the jobs can have.
JobIdArgs == {NULL} \cup {Some(i) : i \in -1..(MaxRuns + 1)}

\* The tool get-indexing-status: const status = await getIndexingStatus(jobId)
GetIndexingStatus ==
    /\ \E jobId \in JobIdArgs :
         statusCall' = [asked |-> TRUE, jobId |-> jobId,
                        reply |-> getIndexingStatus(indexing_jobs, jobId)]
    /\ UNCHANGED <<source, notes, notes_id_seq, indexing_jobs, now, run, srcChanges, directCalls, search, callVars>>

\* No getIndexingStatus call has been made.
NoStatusCall == [asked |-> FALSE, jobId |-> NULL, reply |-> NULL]

\* No hybridSearch call has been made.
\* embedCalls counts the generateEmbedding calls of the call; vector and text
\* are the states of the promises of vectorSearch and textSearch ("none":
\* not called yet).
NoSearch == [pc |-> "idle", vectorResults |-> << >>, textResults |-> << >>, limit |-> 0,
             fused |-> << >>, results |-> << >>,
             embedCalls |-> 0, vector |-> "none", text |-> "none"]

\* ------------------------------------------------------------------ hybridSearch
\* The (title, content) pairs of the rows the two searches return. Two rows
\* of table notes may hold the same title and content.
SearchItems ==
    {[title |-> "a", content |-> "c"],
     [title |-> "a", content |-> "b::c"],
     [title |-> "a::b", content |-> "c"],
     [title |-> "d", content |-> "c"],
     [title |-> "d", content |-> "b::c"]}

\* The result lists of vectorSearch / textSearch (LIMIT $2): at most limit rows.
ResultLists(limit) ==
    UNION {[1..len -> SearchItems] : len \in 0..(IF limit < MaxList THEN limit ELSE MaxList)}

\* Scores are rationals; a score is held as its numerator over ScoreDen, the
\* product of the denominators k + idx that can occur.
RECURSIVE DenProduct(_)
DenProduct(n) == IF n = 0 THEN 1 ELSE (RRF_K + n - 1) * DenProduct(n - 1)

ScoreDen == DenProduct(MaxList)

\* const rrfScore = 1 / (k + idx), idx the 0-based position in the list
RrfScore(idx) == ScoreDen \div (RRF_K + idx)

\* const key = `${result.title}::${result.content}`
Key(result) == result.title \o "::" \o result.content

\* results.forEach((result, idx) => ...) from position pos on: the entry of
\* the Map with the result's key gets the score added, or a new entry is
\* set at the end of the Map (a Map iterates in insertion order).
RECURSIVE AddResults(_, _, _)
AddResults(scores, results, pos) ==
    IF pos > Len(results)
    THEN scores
    ELSE LET result == results[pos]
             key == Key(result)
             rrfScore == RrfScore(pos - 1)
             next == IF \E i \in 1..Len(scores) : scores[i].key = key
                     THEN [i \in 1..Len(scores) |->
                             IF scores[i].key = key
                             THEN [scores[i] EXCEPT !.score = @ + rrfScore]
                             ELSE scores[i]]
                     ELSE Append(scores, [key |-> key, score |-> rrfScore,
                                          title |-> result.title, content |-> result.content])
         IN AddResults(next, results, pos + 1)

\* Mutant: among entries of equal score the later one comes first.
RECURSIVE SortByScore_TiesReversed(_)
SortByScore_TiesReversed(entries) ==
    IF Len(entries) = 0
    THEN << >>
    ELSE LET best == CHOOSE i \in 1..Len(entries) :
                        /\ \A j \in 1..Len(entries) : entries[j].score <= entries[i].score
                        /\ \A j \in (i + 1)..Len(entries) : entries[j].score < entries[i].score
             rest == [j \in 1..(Len(entries) - 1) |-> IF j < best THEN entries[j] ELSE entries[j + 1]]
         IN <<entries[best]>> \o SortByScore_TiesReversed(rest)

\* .sort((a, b) => b.score - a.score): Array.prototype.sort is stable, so
\* entries of equal score keep the order they have in the Map.
RECURSIVE SortByScore(_)
SortByScore(entries) ==
    IF Len(entries) = 0
    THEN << >>
    ELSE LET best == CHOOSE i \in 1..Len(entries) :
                        /\ \A j \in 1..Len(entries) : entries[j].score <= entries[i].score
                        /\ \A j \in 1..(i - 1) : entries[j].score < entries[i].score
             rest == [j \in 1..(Len(entries) - 1) |-> IF j < best THEN entries[j] ELSE entries[j + 1]]
         IN <<entries[best]>> \o SortByScore(rest)

\* The entries of the Map after both lists were processed, sorted.
Fuse(vectorResults, textResults) ==
    SortByScore(AddResults(AddResults(<< >>, vectorResults, 1), textResults, 1))

\* Mutant: the slice stops one entry early.
SliceAndMap_OneShort(sorted, limit) ==
    [i \in 1..(IF limit - 1 < Len(sorted) THEN limit - 1 ELSE Len(sorted)) |->
        [title |-> sorted[i].title, content |-> sorted[i].content, score |-> sorted[i].score]]

\* .slice(0, limit).map(({ title, content, score }) => ({ title, content, score }))
SliceAndMap(sorted, limit) ==
    [i \in 1..(IF limit < Len(sorted) THEN limit ELSE Len(sorted)) |->
        [title |-> sorted[i].title, content |-> sorted[i].content, score |-> sorted[i].score]]

\* hybridSearch once vectorSearch and textSearch have both returned.
HybridSearch ==
    /\ search.pc = "searched"
    /\ LET fused == Fuse(search.vectorResults, search.textResults)
       IN search' = [search EXCEPT !.pc = "done",
                                   !.fused = fused,
                                   !.results = SliceAndMap(fused, search.limit)]
    /\ UNCHANGED <<source, notes, notes_id_seq, indexing_jobs, now, run, srcChanges, directCalls, statusCall, callVars>>

\* hybridSearch(query, limit) is called: it calls generateEmbedding(query) and
\* awaits it.
SearchCall ==
    /\ search.pc = "idle"
    /\ \E limit \in 1..MaxLimit :
         search' = [NoSearch EXCEPT !.pc = "embedding", !.limit = limit,
                                    !.embedCalls = search.embedCalls + 1]
    /\ UNCHANGED <<source, notes, notes_id_seq, indexing_jobs, now, run, srcChanges, directCalls, statusCall, callVars>>

\* Mutant: the text search is not started along with the vector search.
SearchEmbedReturns_VectorFirst ==
    /\ search.pc = "embedding"
    /\ search' = [search EXCEPT !.pc = "searching", !.vector = "pending"]
    /\ UNCHANGED <<source, notes, notes_id_seq, indexing_jobs, now, run, srcChanges, directCalls, statusCall, callVars>>

\* The query embedding arrives: Promise.all([vectorSearch(...), textSearch(...)])
\* calls both functions, each sends its query to the pool, and the call
\* awaits the two promises.
SearchEmbedReturns ==
    /\ search.pc = "embedding"
    /\ search' = [search EXCEPT !.pc = "searching", !.vector = "pending", !.text = "pending"]
    /\ UNCHANGED <<source, notes, notes_id_seq, indexing_jobs, now, run, srcChanges, directCalls, statusCall, callVars>>

\* generateEmbedding rejects: the await throws out of hybridSearch.
SearchEmbedThrows ==
    /\ search.pc = "embedding"
    /\ search' = [search EXCEPT !.pc = "failed"]
    /\ UNCHANGED <<source, notes, notes_id_seq, indexing_jobs, now, run, srcChanges, directCalls, statusCall, callVars>>

\* The promise Promise.all returns: fulfilled once both are, rejected as soon
\* as one is; settled, it does not change again.
AllOf(pc, vector, text) ==
    IF pc # "searching" THEN pc
    ELSE IF vector = "failed" \/ text = "failed" THEN "failed"
    ELSE IF vector = "returned" /\ text = "returned" THEN "searched"
    ELSE "searching"

\* vectorSearch returns its rows (a value nobody awaits any more is dropped).
VectorSearchReturns ==
    /\ search.vector = "pending"
    /\ \E vectorResults \in ResultLists(search.limit) :
         search' = [search EXCEPT !.vector = "returned",
                                  !.vectorResults = IF search.pc = "searching" THEN vectorResults ELSE << >>,
                                  !.pc = AllOf(search.pc, "returned", search.text)]
    /\ UNCHANGED <<source, notes, notes_id_seq, indexing_jobs, now, run, srcChanges, directCalls, statusCall, callVars>>

\* textSearch returns its rows.
TextSearchReturns ==
    /\ search.text = "pending"
    /\ \E textResults \in ResultLists(search.limit) :
         search' = [search EXCEPT !.text = "returned",
                                  !.textResults = IF search.pc = "searching" THEN textResults ELSE << >>,
                                  !.pc = AllOf(search.pc, search.vector, "returned")]
    /\ UNCHANGED <<source, notes, notes_id_seq, indexing_jobs, now, run, srcChanges, directCalls, statusCall, callVars>>

\* The query of vectorSearch fails.
VectorSearchThrows ==
    /\ search.vector = "pending"
    /\ search' = [search EXCEPT !.vector = "failed",
                                !.vectorResults = << >>, !.textResults = << >>,
                                !.pc = AllOf(search.pc, "failed", search.text)]
    /\ UNCHANGED <<source, notes, notes_id_seq, indexing_jobs, now, run, srcChanges, directCalls, statusCall, callVars>>

\* The query of textSearch fails.
TextSearchThrows ==
    /\ search.text = "pending"
    /\ search' = [search EXCEPT !.text = "failed",
                                !.vectorResults = << >>, !.textResults = << >>,
                                !.pc = AllOf(search.pc, search.vector, "failed")]
    /\ UNCHANGED <<source, notes, notes_id_seq, indexing_jobs, now, run, srcChanges, directCalls, statusCall, callVars>>

\* ------------------------------------------------------------------ embeddings.ts
Callers == 1..MaxCallers

\* let extractor = null; pipelines counts the calls of pipeline(...), the
\* initializations of the embedding pipeline; calls[c] is where the c-th
\* generateEmbedding call stands and ext[c] the extractor it got.
NoEmbedder == [extractor |-> NULL, pipelines |-> 0,
               calls |-> [c \in Callers |-> "idle"],
               ext |-> [c \in Callers |-> NULL]]

\* generateEmbedding(text) is called and calls getExtractor(), which runs up
\* to its first await: with no extractor set it calls pipeline(...) and
\* awaits the load, otherwise it returns the extractor.
GenerateEmbeddingCall(c) ==
    /\ embedder.calls[c] = "idle"
    /\ embedder' =
         IF embedder.extractor = NULL
         THEN [embedder EXCEPT !.calls[c] = "loading", !.pipelines = @ + 1]
         ELSE [embedder EXCEPT !.calls[c] = "extracting", !.ext[c] = embedder.extractor]
    /\ UNCHANGED <<source, notes, notes_id_seq, indexing_jobs, now, run, srcChanges, directCalls, queryVars, tool, dbInitialized, noteCall, textCall>>

\* extractor = await pipeline(...): the pipeline loaded for call c is
\* assigned to the module variable and returned; ext(text, ...) is called.
PipelineReturns(c) ==
    /\ embedder.calls[c] = "loading"
    /\ embedder' = [embedder EXCEPT !.extractor = Some(c),
                                    !.calls[c] = "extracting", !.ext[c] = Some(c)]
    /\ UNCHANGED <<source, notes, notes_id_seq, indexing_jobs, now, run, srcChanges, directCalls, queryVars, tool, dbInitialized, noteCall, textCall>>

\* The extractor's output arrives and generateEmbedding returns the vector.
ExtractorReturns(c) ==
    /\ embedder.calls[c] = "extracting"
    /\ embedder' = [embedder EXCEPT !.calls[c] = "returned"]
    /\ UNCHANGED <<source, notes, notes_id_seq, indexing_jobs, now, run, srcChanges, directCalls, queryVars, tool, dbInitialized, noteCall, textCall>>

\* ------------------------------------------------------------------ tool handler
ToolNames == {"list-notes", "index-notes", "sync-notes", "get-indexing-status",
              "get-note", "search-notes", "create-note"}

\* The fields of the tool's input schema (QueryNotesSchema, GetNoteSchema,
\* CreateNoteSchema, GetIndexingStatusSchema); the other tools parse nothing.
Fields(name) ==
    CASE name = "search-notes" -> {"query"}
      [] name = "get-note" -> {"title"}
      [] name = "create-note" -> {"title", "content"}
      [] name = "get-indexing-status" -> {"jobId"}
      [] OTHER -> {}

\* A tool call: its name, the fields of its arguments that the schema does
\* not accept (missing or of the wrong type), the value of dbReady, the
\* kinds of operation the handler has performed for the call so far
\* ("store": a query on the pool, "schema": initializeSchema, "source": a JXA
\* call on the Notes app, "embedding", "indexer", "search", "jobs": a query on
\* indexing_jobs), its reply, and the number of calls so far.
NoTool == [pc |-> "idle", name |-> "list-notes", bad |-> {}, dbReady |-> FALSE,
           effects |-> {}, reply |-> NULL, calls |-> 0]

\* The request handler is called and calls ensureDbInitialized(): with the
\* flag set it returns true, otherwise it awaits checkConnection (SELECT 1).
ToolCall(name, bad) ==
    /\ tool.pc \in {"idle", "returned"}
    /\ tool.calls < MaxToolCalls
    /\ tool' = [NoTool EXCEPT !.name = name, !.bad = bad, !.calls = tool.calls + 1,
                              !.pc = IF dbInitialized THEN "dispatch" ELSE "checkConnection",
                              !.dbReady = dbInitialized,
                              !.effects = IF dbInitialized THEN {} ELSE {"store"}]
    /\ UNCHANGED <<source, notes, notes_id_seq, indexing_jobs, now, run, srcChanges, directCalls, queryVars, embedder, dbInitialized, noteCall, textCall>>

\* checkConnection returns: false (it catches the error of its query) makes
\* ensureDbInitialized return false; true makes it await initializeSchema.
CheckConnectionReturns(connected) ==
    /\ tool.pc = "checkConnection"
    /\ tool' = IF connected
               THEN [tool EXCEPT !.pc = "initializeSchema", !.effects = @ \cup {"schema"}]
               ELSE [tool EXCEPT !.pc = "dispatch", !.dbReady = FALSE]
    /\ UNCHANGED <<source, notes, notes_id_seq, indexing_jobs, now, run, srcChanges, directCalls, queryVars, embedder, dbInitialized, noteCall, textCall>>

\* initializeSchema returns: dbInitialized = true; return true.
InitializeSchemaReturns ==
    /\ tool.pc = "initializeSchema"
    /\ dbInitialized' = TRUE
    /\ tool' = [tool EXCEPT !.pc = "dispatch", !.dbReady = TRUE]
    /\ UNCHANGED <<source, notes, notes_id_seq, indexing_jobs, now, run, srcChanges, directCalls, queryVars, embedder, noteCall, textCall>>

\* initializeSchema throws: the catch of the handler rethrows the error.
InitializeSchemaThrows ==
    /\ tool.pc = "initializeSchema"
    /\ tool' = [tool EXCEPT !.pc = "returned", !.reply = Some([kind |-> "error", fields |-> {}])]
    /\ UNCHANGED <<source, notes, notes_id_seq, indexing_jobs, now, run, srcChanges, directCalls, queryVars, embedder, dbInitialized, noteCall, textCall>>

\* Mutant: no tool is held back when the database is not connected.
ServedWithoutDb_Every == {"list-notes", "index-notes", "sync-notes", "get-indexing-status",
                          "get-note", "search-notes", "create-note"}

\* The tools answered without the database.
ServedWithoutDb == {"list-notes", "get-note", "create-note"}

\* What the case of a tool does once its arguments are parsed; found tells
\* whether getNoteByTitle found a row.
BodyEffects(name, dbReady, found) ==
    CASE name = "list-notes" -> IF dbReady THEN {"store"} ELSE {"source"}
      [] name = "index-notes" -> {"indexer", "source", "embedding", "store", "jobs"}
      [] name = "sync-notes" -> {"indexer", "source", "embedding", "store", "jobs"}
      [] name = "get-indexing-status" -> {"store", "jobs"}
      [] name = "get-note" -> IF dbReady
                              THEN (IF found THEN {"store"} ELSE {"store", "source"})
                              ELSE {"source"}
      [] name = "search-notes" -> {"search", "embedding", "store"}
      [] name = "create-note" -> {"source"}

\* After ensureDbInitialized: the 'Database not connected' response, or the
\* switch: Schema.parse(args) throws a ZodError that names every field it
\* rejects, which the catch turns into 'Invalid arguments: ...'; with
\* accepted arguments the case does its work and answers.
Dispatch ==
    /\ tool.pc = "dispatch"
    /\ \E found \in BOOLEAN :
         tool' =
           IF ~tool.dbReady /\ tool.name \notin ServedWithoutDb
           THEN [tool EXCEPT !.pc = "returned",
                             !.reply = Some([kind |-> "Database not connected", fields |-> {}])]
           ELSE IF tool.bad # {}
           THEN [tool EXCEPT !.pc = "returned",
                             !.reply = Some([kind |-> "Invalid arguments", fields |-> tool.bad])]
           ELSE [tool EXCEPT !.pc = "returned",
                             !.effects = @ \cup BodyEffects(tool.name, tool.dbReady, found),
                             !.reply = Some([kind |-> "ok", fields |-> {}])]
    /\ UNCHANGED <<source, notes, notes_id_seq, indexing_jobs, now, run, srcChanges, directCalls, queryVars, embedder, dbInitialized, noteCall, textCall>>

\* ------------------------------------------------------------------ prepareTextForEmbedding
\* Titles and contents with and without outer white space, and empty ones.
TextTitles == {"", "T", " T", "T ", "\nT", "T 1", " "}
TextContents == {"", "c", " c", "c ", "c\n", "c d", "\tc\r", "\n"}

NoTextCall == [pc |-> "idle", title |-> "", content |-> "", result |-> ""]

\* prepareTextForEmbedding(title, content) returns.
PrepareText ==
    /\ textCall.pc = "called"
    /\ textCall' = [textCall EXCEPT !.pc = "returned",
                                    !.result = prepareTextForEmbedding(textCall.title, textCall.content)]
    /\ UNCHANGED <<source, notes, notes_id_seq, indexing_jobs, now, run, srcChanges, directCalls, queryVars, embedder, tool, dbInitialized, noteCall>>

\* ------------------------------------------------------------------ note calls
\* No upsertNote call has been made by the caller.
NoNoteCall == [pc |-> "idle", apple_note_id |-> 0, title |-> "", id |-> 0, reply |-> NULL]

\* Mutant: the query has no WHERE clause.
getNoteByTitle_AnyRow(rows, title) ==
    IF rows = {} THEN {NULL} ELSE {Some(r) : r \in rows}

\* getNoteByTitle: SELECT * FROM notes WHERE title = $1 LIMIT 1;
\* result.rows[0] || null. Without ORDER BY the store may answer with any of
\* the matching rows: the set of the answers it can give.
getNoteByTitle(rows, title) ==
    LET matching == {r \in rows : r.title = title}
    IN IF matching = {} THEN {NULL} ELSE {Some(r) : r \in matching}

\* const id = await upsertNote(testNote): a caller upserts a note, with any
\* id and title, and keeps the id that RETURNING id gives.
UpsertNoteReturns(n, title) ==
    /\ noteCall.pc = "idle"
    /\ \E b \in DirectBodies, withEmbedding \in BOOLEAN :
         LET note == [apple_note_id |-> n,
                      title |-> title,
                      content |-> htmlToMarkdown(b),
                      html_content |-> Some(b),
                      folder_path |-> Some("Notes"),
                      content_hash |-> Some(generateContentHash(b)),
                      embedding |-> IF withEmbedding
                                    THEN Some(EmbeddingOf(prepareTextForEmbedding(title, htmlToMarkdown(b))))
                                    ELSE NULL]
             rows == UpsertRows(notes, note, notes_id_seq + 1, now)
         IN /\ notes' = rows
            /\ noteCall' = [NoNoteCall EXCEPT !.pc = "upserted", !.apple_note_id = n,
                                              !.title = title, !.id = UpsertedId(rows, note)]
    /\ notes_id_seq' = notes_id_seq + 1
    /\ now' = now + 1
    /\ UNCHANGED <<source, indexing_jobs, run, srcChanges, directCalls, queryVars, embedder, tool, dbInitialized, textCall>>

\* const retrieved = await getNoteByTitle(title), called next by the caller.
GetNoteByTitleReturns ==
    /\ noteCall.pc = "upserted"
    /\ \E reply \in getNoteByTitle(notes, noteCall.title) :
         noteCall' = [noteCall EXCEPT !.pc = "retrieved", !.reply = reply]
    /\ UNCHANGED <<source, notes, notes_id_seq, indexing_jobs, now, run, srcChanges, directCalls, queryVars, embedder, tool, dbInitialized, textCall>>

\* ------------------------------------------------------------------ specification
\* The process has just started: nothing was loaded, called or initialized.
InitCalls ==
    /\ embedder = NoEmbedder
    /\ tool = NoTool
    /\ dbInitialized = FALSE
    /\ noteCall = NoNoteCall
    /\ textCall = NoTextCall

Init ==
    /\ source = [n \in NoteIds |-> [NoNote EXCEPT !.present = TRUE]]
    /\ notes = {}
    /\ notes_id_seq = 0
    /\ indexing_jobs = << >>
    /\ now = 1
    /\ run = [r \in Runs |-> IdleRun]
    /\ srcChanges = 0
    /\ directCalls = 0
    /\ statusCall = NoStatusCall
    /\ search = NoSearch
    /\ InitCalls

\* The steps of a started run.
RunStep(r) ==
    \/ FullList(r)
    \/ SyncSummaries(r)
    \/ SyncHashes(r)
    \/ CreateJob(r)
    \/ SyncDelete(r)
    \/ SyncDelProgress(r)
    \/ \E k \in 1..BATCH_SIZE : FetchReturns(r, k)
    \/ \E k \in 1..BATCH_SIZE : EmbedReturns(r, k)
    \/ \E k \in 1..BATCH_SIZE : UpsertReturns(r, k)
    \/ BatchDone(r)
    \/ CompleteJob(r)

\* A failing call inside a run.
Fault(r) ==
    \/ \E k \in 1..BATCH_SIZE : TaskThrows(r, k)
    \/ RunThrows(r)

\* The user deletes a note or moves it to the trash.
SourceShrinks ==
    \/ \E n \in NoteIds : TrashNote(n)
    \/ \E n \in NoteIds : RemoveNote(n)

\* The user's changes in the Notes app.
SourceChange ==
    \/ \E n \in NoteIds : EditNote(n)
    \/ \E n \in NoteIds : RenameNote(n)
    \/ SourceShrinks
    \/ \E n \in NoteIds : NoteBecomesUnreadable(n)

\* Calls on the store by a client of db.ts other than the indexer.
DirectCall ==
    \/ \E n \in NoteIds : UpsertNoteCall(n)
    \/ \E n \in NoteIds : DeleteNotesCall(n)

\* Whether a further run can still start.
RunToCome == \E r \in Runs : run[r].pc = "idle"

\* Spec: one run at a time, and the source and the store are touched from
\* outside only before a run.
Next ==
    \/ \E r \in Runs : NoActiveRun /\ StartFullIndexing(r)
    \/ \E r \in Runs : NoActiveRun /\ StartSync(r)
    \/ \E r \in Runs : RunStep(r)
    \/ \E r \in Runs : Fault(r)
    \/ NoActiveRun /\ RunToCome /\ SourceChange

Spec == Init /\ [][Next]_vars

\* SpecLive: one run at a time, no call fails, and the user deletes or
\* trashes notes at any time, also while a run is in progress.
NextLive ==
    \/ \E r \in Runs : NoActiveRun /\ StartFullIndexing(r)
    \/ \E r \in Runs : NoActiveRun /\ StartSync(r)
    \/ \E r \in Runs : RunStep(r)
    \/ (RunToCome \/ ~NoActiveRun) /\ SourceShrinks

SpecLive == Init /\ [][NextLive]_vars

\* SpecConc: runs overlap (two tool calls in flight, or the CLI beside the
\* server), and clients call the store while they run; no call fails.
NextConc ==
    \/ \E r \in Runs : StartFullIndexing(r)
    \/ \E r \in Runs : StartSync(r)
    \/ \E r \in Runs : RunStep(r)
    \/ DirectCall

\* The app holds one batch of notes, so that the overlapping runs stay small.
InitConc ==
    /\ source = [n \in NoteIds |-> IF n <= BATCH_SIZE THEN [NoNote EXCEPT !.present = TRUE] ELSE NoNote]
    /\ notes = {}
    /\ notes_id_seq = 0
    /\ indexing_jobs = << >>
    /\ now = 1
    /\ run = [r \in Runs |-> IdleRun]
    /\ srcChanges = 0
    /\ directCalls = 0
    /\ statusCall = NoStatusCall
    /\ search = NoSearch
    /\ InitCalls

SpecConc == InitConc /\ [][NextConc]_vars

\* SpecJobs: one run at a time with no failing call, notes leaving the
\* source between runs, and the job operations of db.ts called from outside
\* the indexer.
JobCall ==
    \/ CreateIndexingJobCall
    \/ UpdateJobProgressCall
    \/ CompleteJobCall

NextJobs ==
    \/ \E r \in Runs : NoActiveRun /\ StartFullIndexing(r)
    \/ \E r \in Runs : NoActiveRun /\ StartSync(r)
    \/ \E r \in Runs : RunStep(r)
    \/ NoActiveRun /\ RunToCome /\ SourceShrinks
    \/ JobCall

SpecJobs == Init /\ [][NextJobs]_vars

\* SpecStatus: one run at a time with no failing call, notes leaving the
\* source between runs, and get-indexing-status called at any moment.
NextStatus ==
    \/ \E r \in Runs : NoActiveRun /\ StartFullIndexing(r)
    \/ \E r \in Runs : NoActiveRun /\ StartSync(r)
    \/ \E r \in Runs : RunStep(r)
    \/ NoActiveRun /\ RunToCome /\ SourceShrinks
    \/ GetIndexingStatus

SpecStatus == Init /\ [][NextStatus]_vars

\* SpecIndexed: Spec started from the state a first full indexing run with
\* no failure leaves behind: a row for every note, written in the order of
\* the listing, and its completed job.
InitSource == [n \in NoteIds |-> [NoNote EXCEPT !.present = TRUE]]

IndexedRow(n) ==
    LET d == [id |-> n, title |-> InitSource[n].title, content |-> InitSource[n].body,
              folder |-> InitSource[n].folder]
        text == prepareTextForEmbedding(d.title, htmlToMarkdown(d.content))
    IN UpsertRows({}, NoteArgument(d, Some(EmbeddingOf(text))), n, n + 1)

InitIndexed ==
    /\ source = InitSource
    /\ notes = UNION {IndexedRow(n) : n \in NoteIds}
    /\ notes_id_seq = MaxNotes
    /\ indexing_jobs = completeJob(updateJobProgress(<<NewJob(1, MaxNotes, 1)>>, 1, MaxNotes, 0),
                                   1, "completed", MaxNotes + 2)
    /\ now = MaxNotes + 3
    /\ run = [r \in Runs |-> IdleRun]
    /\ srcChanges = 0
    /\ directCalls = 0
    /\ statusCall = NoStatusCall
    /\ search = NoSearch
    /\ InitCalls

SpecIndexed == InitIndexed /\ [][Next]_vars

\* SpecSearch: a hybridSearch call whose two searches have returned any two
\* result lists of at most limit rows.
InitSearch ==
    /\ source = InitSource
    /\ notes = {}
    /\ notes_id_seq = 0
    /\ indexing_jobs = << >>
    /\ now = 1
    /\ run = [r \in Runs |-> IdleRun]
    /\ srcChanges = 0
    /\ directCalls = 0
    /\ statusCall = NoStatusCall
    /\ InitCalls
    /\ \E limit \in 1..MaxLimit :
         \E vectorResults \in ResultLists(limit), textResults \in ResultLists(limit) :
            search = [NoSearch EXCEPT !.pc = "searched", !.limit = limit,
                                      !.embedCalls = 1,
                                      !.vector = "returned", !.text = "returned",
                                      !.vectorResults = vectorResults,
                                      !.textResults = textResults]

NextSearch == HybridSearch

SpecSearch == InitSearch /\ [][NextSearch]_vars

\* SpecSearchCall: one hybridSearch call from its start, its embedding and its
\* two searches returning or failing in any order.
NextSearchCall ==
    \/ SearchCall
    \/ SearchEmbedReturns
    \/ SearchEmbedThrows
    \/ VectorSearchReturns
    \/ TextSearchReturns
    \/ VectorSearchThrows
    \/ TextSearchThrows
    \/ HybridSearch

SpecSearchCall == Init /\ [][NextSearchCall]_vars

\* SpecEmbed: the generateEmbedding calls of one process, started at any
\* time, as the tasks of a batch and the searches start them.
NextEmbed ==
    \E c \in Callers :
        \/ GenerateEmbeddingCall(c)
        \/ PipelineReturns(c)
        \/ ExtractorReturns(c)

SpecEmbed == Init /\ [][NextEmbed]_vars

\* SpecText: prepareTextForEmbedding called with any title and content of
\* TextTitles and TextContents.
InitText ==
    /\ source = [n \in NoteIds |-> [NoNote EXCEPT !.present = TRUE]]
    /\ notes = {}
    /\ notes_id_seq = 0
    /\ indexing_jobs = << >>
    /\ now = 1
    /\ run = [r \in Runs |-> IdleRun]
    /\ srcChanges = 0
    /\ directCalls = 0
    /\ statusCall = NoStatusCall
    /\ search = NoSearch
    /\ embedder = NoEmbedder
    /\ tool = NoTool
    /\ dbInitialized = FALSE
    /\ noteCall = NoNoteCall
    /\ \E title \in TextTitles, content \in TextContents :
         textCall = [NoTextCall EXCEPT !.pc = "called", !.title = title, !.content = content]

NextText == PrepareText

SpecText == InitText /\ [][NextText]_vars

\* SpecNote: a caller upserts a note and then asks for it by title, on a
\* store that holds rows for any of the notes, with any titles.
StoredRow(n, title) ==
    LET d == [id |-> n, title |-> title, content |-> InitSource[n].body,
              folder |-> InitSource[n].folder]
        text == prepareTextForEmbedding(d.title, htmlToMarkdown(d.content))
    IN UpsertRows({}, NoteArgument(d, Some(EmbeddingOf(text))), n, n + 1)

InitNote ==
    /\ source = InitSource
    /\ \E S \in SUBSET NoteIds : \E titles \in [S -> Titles] :
         notes = UNION {StoredRow(n, titles[n]) : n \in S}
    /\ notes_id_seq = MaxNotes
    /\ indexing_jobs = << >>
    /\ now = MaxNotes + 3
    /\ run = [r \in Runs |-> IdleRun]
    /\ srcChanges = 0
    /\ directCalls = 0
    /\ statusCall = NoStatusCall
    /\ search = NoSearch
    /\ InitCalls

NextNote ==
    \/ \E n \in NoteIds, title \in Titles : UpsertNoteReturns(n, title)
    \/ GetNoteByTitleReturns

SpecNote == InitNote /\ [][NextNote]_vars

\* SpecTool: the server handles tool calls one after the other, with any
\* tool name and any set of rejected argument fields; the database may be
\* reachable or not at each connection check.
NextTool ==
    \/ \E name \in ToolNames : \E bad \in SUBSET Fields(name) : ToolCall(name, bad)
    \/ \E connected \in BOOLEAN : CheckConnectionReturns(connected)
    \/ InitializeSchemaReturns
    \/ InitializeSchemaThrows
    \/ Dispatch

SpecTool == Init /\ [][NextTool]_vars

\* FairSpec: one run at a time, notes leave the source between runs (so that
\* a sync has rows to delete), and a started run is not left waiting forever:
\* the event loop runs every continuation that is ready, and every call the
\* run awaits settles.
NextFair ==
    \/ \E r \in Runs : NoActiveRun /\ StartFullIndexing(r)
    \/ \E r \in Runs : NoActiveRun /\ StartSync(r)
    \/ \E r \in Runs : RunStep(r)
    \/ \E r \in Runs : Fault(r)
    \/ NoActiveRun /\ RunToCome /\ SourceShrinks

FairSpec == Init /\ [][NextFair]_vars /\ \A r \in Runs : WF_vars(RunStep(r))

\* ------------------------------------------------------------------ properties
\* The job row of a run that has created its job.
JobOf(r) == indexing_jobs[run[r].jobId]

\* The notes whose task in run r was fulfilled / rejected.
FulfilledNotes(r) == {n \in NoteIds : run[r].outcome[n] \in {"stored", "skipped", "nodetails"}}
RejectedNotes(r) == {n \in NoteIds : run[r].outcome[n] = "rejected"}

\* The rows that were in the store when sync r was called and whose id is
\* not among the summaries it read.
StaleNotes(r) == {n \in NoteIds : RowsOf(run[r].startRows, n) # {} /\ n \notin run[r].appleNoteIds}

\* C1: in every state of every job row processed + failed <= total, and a
\* job marked completed has processed + failed = total.
C1_ProgressCounters ==
    \A j \in 1..Len(indexing_jobs) :
        LET job == indexing_jobs[j]
        IN /\ job.processed_notes + job.failed_notes <= job.total_notes
           /\ job.status = "completed" => job.processed_notes + job.failed_notes = job.total_notes

\* A sync that deleted rows and had a failing note has completed its job.
C1_Witness ==
    \E r \in Runs :
        /\ run[r].op = "sync" /\ run[r].pc = "returned"
        /\ Len(run[r].notesToDelete) > 0 /\ run[r].failedNotes > 0 /\ run[r].processedNotes > 1
        /\ JobOf(r).status = "completed"

\* C2 (the claim as stated): when a run returns, every note whose task was
\* fulfilled has a row in the store, processed is the number of those notes
\* (plus, for a sync, the rows it deleted) and failed is the number of notes
\* whose task was rejected.
C2_FailureIsolation ==
    \A r \in Runs :
        run[r].pc = "returned" =>
            /\ \A n \in FulfilledNotes(r) : RowsOf(run[r].endRows, n) # {}
            /\ run[r].processedNotes = Cardinality(FulfilledNotes(r)) + Len(run[r].notesToDelete)
            /\ run[r].failedNotes = Cardinality(RejectedNotes(r))
            /\ JobOf(r).processed_notes = run[r].processedNotes
            /\ JobOf(r).failed_notes = run[r].failedNotes

\* C3: in a sync, a note whose body was fetched and hashes to the hash stored
\* for its id is not embedded, its row is left as it was, and it is counted
\* in processed.
C3_HashShortCircuit ==
    \A r \in Runs :
        (run[r].op = "sync" /\ run[r].pc = "returned") =>
            /\ \A n \in run[r].appleNoteIds :
                 LET old == RowsOf(run[r].startRows, n)
                     src == run[r].endSource[n]
                 IN (/\ src.readable
                     /\ run[r].outcome[n] # "rejected"
                     /\ \E o \in old : o.content_hash = Some(generateContentHash(src.body)))
                    => /\ n \notin run[r].embedCalls
                       /\ RowsOf(run[r].endRows, n) = old
                       /\ n \in FulfilledNotes(r)
            /\ run[r].processedNotes = Cardinality(FulfilledNotes(r)) + Len(run[r].notesToDelete)

\* A sync has returned after skipping an unchanged note and embedding another.
C3_Witness ==
    \E r \in Runs :
        /\ run[r].op = "sync" /\ run[r].pc = "returned"
        /\ \E n \in NoteIds : run[r].outcome[n] = "skipped" /\ RowsOf(run[r].endRows, n) # {}
        /\ run[r].embedCalls # {}

\* C4: a sync removes every row that was in the store when it was called and
\* whose id is not among the source's summaries, counts each once in
\* processed, and has written that count to the job before the first update
\* batch starts.
C4_DeletionCorrectness ==
    \A r \in Runs :
        run[r].op = "sync" =>
            /\ run[r].pc \in {"await", "complete"} =>
                 /\ \A n \in StaleNotes(r) : RowsOf(notes, n) = {}
                 /\ Len(run[r].notesToDelete) = Cardinality(StaleNotes(r))
                 /\ JobOf(r).processed_notes >= Cardinality(StaleNotes(r))
                 /\ (run[r].pc = "await" /\ run[r].i = 0) =>
                        /\ JobOf(r).processed_notes = Cardinality(StaleNotes(r))
                        /\ JobOf(r).failed_notes = 0
            /\ run[r].pc = "returned" =>
                 /\ \A n \in StaleNotes(r) : RowsOf(run[r].endRows, n) = {}
                 /\ run[r].processedNotes = Cardinality(StaleNotes(r)) + Cardinality(FulfilledNotes(r))
                 /\ JobOf(r).processed_notes = run[r].processedNotes

\* A sync with a stale row has deleted it and is in its first update batch.
C4_Witness ==
    \E r \in Runs :
        /\ run[r].op = "sync" /\ run[r].pc = "await" /\ run[r].i = 0
        /\ StaleNotes(r) # {}

\* C5: a run that upserts a note whose title, body and folder are those of
\* the row already stored for its id leaves exactly one row for the id, equal
\* to the old one in every field but indexed_at, and indexed_at has advanced;
\* a first upsert leaves exactly one row too.
C5_IdempotentUpsert ==
    \A r \in Runs :
        run[r].pc = "returned" =>
            \A n \in NoteIds :
                run[r].outcome[n] = "stored" =>
                    LET old == RowsOf(run[r].startRows, n)
                        new == RowsOf(run[r].endRows, n)
                        src == run[r].endSource[n]
                    IN /\ Cardinality(new) = 1
                       /\ \A o \in old, w \in new :
                            (/\ o.title = src.title
                             /\ o.html_content = Some(src.body)
                             /\ o.folder_path = Some(src.folder))
                            => /\ w = [o EXCEPT !.indexed_at = w.indexed_at]
                               /\ w.indexed_at > o.indexed_at

\* The same unchanged note has been indexed by two runs.
C5_Witness ==
    \E r \in Runs, n \in NoteIds :
        /\ run[r].pc = "returned" /\ run[r].outcome[n] = "stored"
        /\ \E o \in RowsOf(run[r].startRows, n) :
             /\ o.title = run[r].endSource[n].title
             /\ o.html_content = Some(run[r].endSource[n].body)
             /\ o.folder_path = Some(run[r].endSource[n].folder)

\* C6: no two rows of table notes have the same apple_note_id.
C6_UniqueExternalId ==
    \A a \in notes, b \in notes :
        (a.apple_note_id # NULL /\ a.apple_note_id = b.apple_note_id) => a = b

\* Two runs are in flight and an id has been upserted more than once.
C6_Witness ==
    /\ \E r1 \in Runs, r2 \in Runs : r1 # r2 /\ Active(r1) /\ Active(r2)
    /\ notes # {}
    /\ notes_id_seq > Cardinality(notes) + 1

\* C7 (the claim as stated): when a full run returns with failed = 0, every
\* note of the source that is not in the trash has a row holding its body.
C7_FullIndexComplete ==
    \A r \in Runs :
        (run[r].op = "full" /\ run[r].pc = "returned" /\ run[r].failedNotes = 0) =>
            \A n \in NoteIds :
                LET src == run[r].endSource[n]
                IN (src.present /\ src.folder # TrashFolder) =>
                      \E w \in RowsOf(run[r].endRows, n) :
                          /\ w.html_content = Some(src.body)
                          /\ w.content = htmlToMarkdown(src.body)
                          /\ w.content_hash = Some(generateContentHash(src.body))

\* The notes run r set out to index: the ids of the summaries for a sync,
\* the notes of the app outside the trash for a full run.
Candidates(r) ==
    IF run[r].op = "sync"
    THEN run[r].appleNoteIds
    ELSE {n \in NoteIds : run[r].endSource[n].present /\ run[r].endSource[n].folder # TrashFolder}

\* The candidates whose processing failed: the task was rejected, or the
\* note's properties or body could not be read.
FailingNotes(r) ==
    {n \in Candidates(r) : run[r].outcome[n] = "rejected" \/ ~run[r].endSource[n].readable}

\* C8 (the claim as stated): a note whose processing failed (body fetch,
\* conversion, embedding or upsert) is counted once in failed and not in
\* processed, and its row is what it was when the run was called.
C8_FailedNoteCounted ==
    \A r \in Runs :
        run[r].pc = "returned" =>
            /\ run[r].failedNotes = Cardinality(FailingNotes(r))
            /\ run[r].processedNotes = Len(run[r].notesToDelete) + Cardinality(Candidates(r) \ FailingNotes(r))
            /\ \A n \in FailingNotes(r) : RowsOf(run[r].endRows, n) = RowsOf(run[r].startRows, n)

\* What holds of the tasks that Promise.allSettled reports as rejected: each
\* is counted once in failed and not in processed, and the row of its note
\* is what it was when the run was called.
RejectedNoteUntouched ==
    \A r \in Runs :
        run[r].pc = "returned" =>
            /\ \A n \in RejectedNotes(r) : RowsOf(run[r].endRows, n) = RowsOf(run[r].startRows, n)
            /\ run[r].failedNotes = Cardinality(RejectedNotes(r))
            /\ run[r].processedNotes + run[r].failedNotes = run[r].totalNotes
            /\ JobOf(r).failed_notes = Cardinality(RejectedNotes(r))

\* C9 (the claim as stated): a run that was aborted by a failing call after
\* it created its job has left the job in status failed.
C9_AbortMarksFailed ==
    \A r \in Runs :
        (run[r].pc = "threw" /\ run[r].jobId # 0) => JobOf(r).status = "failed"

\* C10: a started run comes to an end; one that was not aborted by a failing
\* call has returned with its job completed, and no job is ever failed.
C10_RunsComplete ==
    /\ \A r \in Runs : (run[r].pc # "idle") ~> (run[r].pc \in {"returned", "threw"})
    /\ [](\A r \in Runs : run[r].pc = "returned" => JobOf(r).status = "completed")
    /\ [](\A j \in 1..Len(indexing_jobs) : indexing_jobs[j].status # "failed")

\* A run over all the notes has returned with every note failed.
C10_Witness ==
    \E r \in Runs :
        /\ run[r].pc = "returned" /\ run[r].totalNotes = MaxNotes
        /\ run[r].failedNotes = MaxNotes
        /\ JobOf(r).status = "completed"

\* C11 (the claim as stated): completed_at is set exactly when the job is in
\* a terminal status, and once set neither it nor the status is written
\* again, whatever sequence of job operations and runs takes place.
C11_CompletedAtOnce ==
    [][\A j \in 1..Len(indexing_jobs) :
          LET old == indexing_jobs[j]
              new == indexing_jobs'[j]
          IN /\ (new.completed_at # NULL) <=> (new.status \in {"completed", "failed"})
             /\ old.completed_at # NULL =>
                    (new.completed_at = old.completed_at /\ new.status = old.status)]_vars

\* C12: every job row has a status in {running, completed, failed}, and a
\* job that has not been completed is running from its creation on.
C12_RunningFromCreation ==
    \A j \in 1..Len(indexing_jobs) :
        /\ indexing_jobs[j].status \in {"running", "completed", "failed"}
        /\ indexing_jobs[j].completed_at = NULL => indexing_jobs[j].status = "running"

\* A run has just created its job and no batch has been tallied yet.
C12_Witness ==
    \E r \in Runs :
        /\ run[r].pc = "await" /\ run[r].i = 0 /\ run[r].jobId # 0
        /\ JobOf(r).status = "running" /\ JobOf(r).completed_at = NULL
        /\ JobOf(r).processed_notes = 0 /\ JobOf(r).total_notes > 0

\* C13: getIndexingStatus called with no job id replies with the job whose
\* started_at is the latest of all the jobs, and with no job (null) when
\* there is none.
C13_LatestJob ==
    [][(statusCall' # statusCall /\ statusCall'.jobId = NULL) =>
          LET reply == statusCall'.reply
          IN /\ (reply = NULL) <=> (Len(indexing_jobs) = 0)
             /\ reply # NULL =>
                  /\ \E j \in 1..Len(indexing_jobs) : indexing_jobs[j] = reply[1]
                  /\ \A j \in 1..Len(indexing_jobs) :
                       indexing_jobs[j].started_at <= reply[1].started_at]_vars

\* The query was made with no id when two jobs existed, and got the second.
C13_Witness ==
    /\ statusCall.asked /\ statusCall.jobId = NULL
    /\ Len(indexing_jobs) = MaxRuns
    /\ statusCall.reply # NULL /\ statusCall.reply[1].id = MaxRuns

\* C14 (the claim as stated): getIndexingStatus called with a number that is
\* the id of no job replies with no job (null).
C14_UnknownIdNotFound ==
    (/\ statusCall.asked
     /\ statusCall.jobId # NULL
     /\ \A j \in 1..Len(indexing_jobs) : indexing_jobs[j].id # statusCall.jobId[1])
    => statusCall.reply = NULL

\* The source as run r saw it: the source does not change while a run of
\* Spec is in progress.
SourceOf(r) == IF Active(r) THEN source ELSE run[r].endSource

\* The ids the summaries of a source list: the notes outside the trash.
SummaryIds(src) == {n \in NoteIds : src[n].present /\ src[n].folder # TrashFolder}

\* The ids with a row in the store when run r was called that the summaries
\* do not list.
DeletionSet(r) == {n \in NoteIds : RowsOf(run[r].startRows, n) # {} /\ n \notin SummaryIds(SourceOf(r))}

\* C15: the job of a sync has total = |deletion set| + |update candidates|,
\* the deletion set being the stored ids the summaries do not list and the
\* update candidates every id the summaries list.
C15_SyncTotal ==
    \A r \in Runs :
        (run[r].op = "sync" /\ run[r].jobId # 0) =>
            /\ JobOf(r).total_notes =
                   Cardinality(DeletionSet(r)) + Cardinality(SummaryIds(SourceOf(r)))
            /\ Range(run[r].notesToDelete) = DeletionSet(r)
            /\ Len(run[r].notesToDelete) = Cardinality(DeletionSet(r))
            /\ run[r].pc = "delete" =>
                   /\ Range(run[r].notesToUpdate) = SummaryIds(source)
                   /\ Len(run[r].notesToUpdate) = Cardinality(SummaryIds(source))

\* A sync with a row to delete, a stored note to revisit and a new note has
\* created its job.
C15_Witness ==
    \E r \in Runs :
        /\ run[r].op = "sync" /\ run[r].pc = "delete"
        /\ DeletionSet(r) # {}
        /\ \E n \in SummaryIds(source) : RowsOf(run[r].startRows, n) # {}
        /\ \E n \in SummaryIds(source) : RowsOf(run[r].startRows, n) = {}

\* C16 (the claim as stated): after a sync that returns with failed = 0,
\* every note the summaries list whose body is not the body stored for its id
\* (or that has no row) has a row whose raw body, normalized content, hash
\* and embedding are those of the source's current body.
C16_ChangedBodyReindexed ==
    \A r \in Runs :
        (run[r].op = "sync" /\ run[r].pc = "returned" /\ run[r].failedNotes = 0) =>
            \A n \in run[r].appleNoteIds :
                LET src == run[r].endSource[n]
                    old == RowsOf(run[r].startRows, n)
                    md == htmlToMarkdown(src.body)
                IN (old = {} \/ \E o \in old : o.html_content # Some(src.body)) =>
                      \E w \in RowsOf(run[r].endRows, n) :
                          /\ w.html_content = Some(src.body)
                          /\ w.content = md
                          /\ w.content_hash = Some(generateContentHash(src.body))
                          /\ w.embedding = Some(EmbeddingOf(prepareTextForEmbedding(src.title, md)))

\* Run r2 is the sync that follows run r1, both have returned, and note n,
\* whose processing failed in r1 (its task was rejected, or it could not be
\* read), is listed by r2's summaries.
FailedThenSynced(r1, r2, n) ==
    /\ r2 = r1 + 1
    /\ run[r1].pc = "returned" /\ run[r2].pc = "returned" /\ run[r2].op = "sync"
    /\ n \in FailingNotes(r1)
    /\ n \in run[r2].appleNoteIds

\* The processing of note n in sync r succeeded: its body was fetched and no
\* step of its task raised.
ProcessingSucceeds(r, n) ==
    run[r].endSource[n].readable /\ run[r].outcome[n] # "rejected"

\* The store held, when run r was called, a row for n with the hash of the
\* body n has in the source.
HashMatches(r, n) ==
    \E o \in RowsOf(run[r].startRows, n) :
        o.content_hash = Some(generateContentHash(run[r].endSource[n].body))

\* C17 (the claim as stated): a note whose processing failed in one run is
\* not skipped by the next sync, and if its processing then succeeds it is
\* embedded and upserted.
C17_FailedNoteRetried ==
    \A r1 \in Runs, r2 \in Runs, n \in NoteIds :
        FailedThenSynced(r1, r2, n) =>
            /\ run[r2].outcome[n] # "skipped"
            /\ ProcessingSucceeds(r2, n) =>
                   (run[r2].outcome[n] = "stored" /\ n \in run[r2].embedCalls)

\* C17 (amended): a note whose processing failed in one run, and for which
\* the store holds no row with the hash of its current body, is not skipped
\* by the next sync, and if its processing then succeeds it is embedded and
\* upserted, its row holding the current body.
C17_StaleFailedNoteRetried ==
    \A r1 \in Runs, r2 \in Runs, n \in NoteIds :
        (FailedThenSynced(r1, r2, n) /\ ~HashMatches(r2, n)) =>
            /\ run[r2].outcome[n] # "skipped"
            /\ ProcessingSucceeds(r2, n) =>
                   /\ run[r2].outcome[n] = "stored"
                   /\ n \in run[r2].embedCalls
                   /\ \E w \in RowsOf(run[r2].endRows, n) :
                        /\ w.html_content = Some(run[r2].endSource[n].body)
                        /\ w.content_hash = Some(generateContentHash(run[r2].endSource[n].body))

\* A note with an edited body failed in a full run (the row kept the old
\* hash) and the sync that followed embedded and stored it.
C17_Witness ==
    \E r1 \in Runs, r2 \in Runs, n \in NoteIds :
        /\ FailedThenSynced(r1, r2, n) /\ ~HashMatches(r2, n)
        /\ run[r1].outcome[n] = "rejected"
        /\ RowsOf(run[r2].startRows, n) # {}
        /\ run[r2].outcome[n] = "stored"

\* The (title, content) pair of a result or of a fused entry.
Pair(x) == <<x.title, x.content>>

\* The pairs of the rows the two searches returned.
InputPairs ==
    {Pair(search.vectorResults[i]) : i \in 1..Len(search.vectorResults)}
        \cup {Pair(search.textResults[i]) : i \in 1..Len(search.textResults)}

\* The term a list contributes to the item with the given pair: 1/(k + rank)
\* for its position in the list, nothing when the list does not hold it.
TermOf(list, pair) ==
    LET at == {i \in 1..Len(list) : Pair(list[i]) = pair}
    IN IF at = {} THEN 0 ELSE RrfScore(Min(at) - 1)

\* C18 (the claim as stated): every fused item has the score that is the sum,
\* over the lists that hold the item, of 1/(60 + rank), one term for each
\* such list.
C18_FusionScore ==
    search.pc = "done" =>
        /\ \A i \in 1..Len(search.fused) :
             search.fused[i].score =
                 TermOf(search.vectorResults, Pair(search.fused[i]))
                     + TermOf(search.textResults, Pair(search.fused[i]))
        /\ \A pair \in InputPairs : \E i \in 1..Len(search.fused) : Pair(search.fused[i]) = pair

\* The 1-based position of the first result of a list that went into a fused
\* entry, 0 when the list has none.
RankIn(list, entry) ==
    LET at == {i \in 1..Len(list) : Key(list[i]) = entry.key}
    IN IF at = {} THEN 0 ELSE Min(at)

\* Whether entry a precedes entry b of the same score: by the vector rank
\* when a has one, otherwise by the lexical rank.
TieBefore(a, b) ==
    LET va == RankIn(search.vectorResults, a)
        vb == RankIn(search.vectorResults, b)
    IN IF va > 0
       THEN vb = 0 \/ va < vb
       ELSE vb = 0 /\ RankIn(search.textResults, a) < RankIn(search.textResults, b)

\* The titles and contents of the returned results, in order.
ReturnedPairs == [i \in 1..Len(search.results) |-> Pair(search.results[i])]

\* C19: the fused items are in descending order of their score, items of
\* equal score in the order of their vector rank, or of their lexical rank
\* when they have no vector rank; what is returned keeps that order; and for
\* vector list [A, B, C] and lexical list [B, A, D] the result is A, B, C, D.
C19_SortedWithTieBreak ==
    search.pc = "done" =>
        /\ \A i \in 1..Len(search.fused), j \in 1..Len(search.fused) :
             i < j =>
                 /\ search.fused[i].score >= search.fused[j].score
                 /\ search.fused[i].score = search.fused[j].score
                        => TieBefore(search.fused[i], search.fused[j])
        /\ \A i \in 1..Len(search.results) :
             /\ i <= Len(search.fused)
             /\ Pair(search.results[i]) = Pair(search.fused[i])
             /\ search.results[i].score = search.fused[i].score
        /\ (/\ Len(search.vectorResults) = 3 /\ Len(search.textResults) = 3
            /\ search.textResults[1] = search.vectorResults[2]
            /\ search.textResults[2] = search.vectorResults[1]
            /\ Cardinality({Key(search.vectorResults[1]), Key(search.vectorResults[2]),
                            Key(search.vectorResults[3]), Key(search.textResults[3])}) = 4
            /\ search.limit >= 4)
           => ReturnedPairs = <<Pair(search.vectorResults[1]), Pair(search.vectorResults[2]),
                                Pair(search.vectorResults[3]), Pair(search.textResults[3])>>

\* The call with vector list [A, B, C] and lexical list [B, A, D] has returned.
C19_Witness ==
    /\ search.pc = "done" /\ search.limit >= 4
    /\ Len(search.vectorResults) = 3 /\ Len(search.textResults) = 3
    /\ search.textResults[1] = search.vectorResults[2]
    /\ search.textResults[2] = search.vectorResults[1]
    /\ Cardinality({Key(search.vectorResults[1]), Key(search.vectorResults[2]),
                    Key(search.vectorResults[3]), Key(search.textResults[3])}) = 4
    /\ Len(search.results) = 4
    /\ search.results[1].score = search.results[2].score
    /\ search.results[3].score = search.results[4].score

\* C20 (the claim as stated): two results are merged into one fused item
\* exactly when their (title, content) pairs are equal: there is one fused
\* item for each pair the lists hold.
C20_MergeIffSamePair ==
    search.pc = "done" =>
        /\ Len(search.fused) = Cardinality(InputPairs)
        /\ \A i \in 1..Len(search.fused), j \in 1..Len(search.fused) :
             Pair(search.fused[i]) = Pair(search.fused[j]) => i = j

\* C21: hybridSearch(query, limit) returns exactly the first
\* min(limit, number of fused items) items of the score-sorted fused list,
\* item by item with their title, content and score, and it returns the
\* empty list when both searches returned no rows.
C21_TopLimit ==
    search.pc = "done" =>
        /\ Len(search.results) = Min({search.limit, Len(search.fused)})
        /\ \A i \in 1..Len(search.results) :
              /\ search.results[i].title = search.fused[i].title
              /\ search.results[i].content = search.fused[i].content
              /\ search.results[i].score = search.fused[i].score
        /\ (search.vectorResults = << >> /\ search.textResults = << >>) => search.results = << >>

\* A search whose fused list is longer than the limit has returned.
C21_Witness ==
    /\ search.pc = "done"
    /\ Len(search.fused) > search.limit
    /\ Len(search.results) = search.limit
    /\ search.limit > 1

\* A search whose two lists were both empty has returned.
C21_EmptyWitness ==
    /\ search.pc = "done"
    /\ search.vectorResults = << >> /\ search.textResults = << >>
    /\ search.results = << >>

\* C22: within one hybridSearch call the query is embedded once, before
\* either search; the vector and the lexical search are started together, so
\* that either may finish first; the lists are fused only when both searches
\* have returned, from both lists; and when either search fails the call
\* fails as a whole and returns no result.
C22_EmbedOnceSearchBoth ==
    /\ search.embedCalls <= 1
    /\ search.pc # "idle" => search.embedCalls = 1
    /\ search.pc \in {"idle", "embedding"} => search.vector = "none" /\ search.text = "none"
    /\ (search.vector = "none") <=> (search.text = "none")
    /\ search.pc \in {"searched", "done"} => search.vector = "returned" /\ search.text = "returned"
    /\ search.pc # "done" => search.fused = << >> /\ search.results = << >>
    /\ search.pc = "done" =>
          /\ search.fused = Fuse(search.vectorResults, search.textResults)
          /\ search.results = SliceAndMap(search.fused, search.limit)
    /\ (search.vector = "failed" \/ search.text = "failed") => search.pc = "failed"

\* The text search has returned while the vector search is still pending.
C22_Witness ==
    /\ search.pc = "searching"
    /\ search.text = "returned"
    /\ search.vector = "pending"
    /\ search.textResults # << >>

\* The vector search returned rows, the text search failed, the call failed.
C22_FailedWitness ==
    /\ search.pc = "failed"
    /\ search.vector = "returned"
    /\ search.text = "failed"
    /\ search.results = << >>

\* C23: whatever the interleaving of concurrent generateEmbedding calls, the
\* embedding pipeline is initialized at most once per process.
C23_PipelineInitializedOnce == embedder.pipelines <= 1

\* The array the batch loop of run r slices.
LoopArray(r) == IF run[r].op = "full" THEN run[r].notes ELSE run[r].notesToUpdate

\* The tasks of run r that have started and not settled.
InFlight(r) == {k \in 1..Len(run[r].tasks) : ~Settled(run[r].tasks[k])}

\* The counters of job j differ between the two states of a step.
CountersWritten(j) ==
    \/ indexing_jobs'[j].processed_notes # indexing_jobs[j].processed_notes
    \/ indexing_jobs'[j].failed_notes # indexing_jobs[j].failed_notes

\* While the tasks of a batch of run r are awaited: they are the tasks of the
\* slice at i and of no other batch, at most BATCH_SIZE of them, and the job
\* row already holds the tallies of every earlier batch (and of the deletions).
BatchInvariant(r) ==
    run[r].pc = "await" =>
        /\ Len(run[r].tasks) <= BATCH_SIZE
        /\ Cardinality(InFlight(r)) <= BATCH_SIZE
        /\ run[r].i < Len(LoopArray(r))
        /\ Len(run[r].tasks) = Min({BATCH_SIZE, Len(LoopArray(r)) - run[r].i})
        /\ \A k \in 1..Len(run[r].tasks) :
              run[r].tasks[k].id = (IF run[r].op = "full"
                                    THEN LoopArray(r)[run[r].i + k].id
                                    ELSE LoopArray(r)[run[r].i + k])
        /\ JobOf(r).processed_notes = run[r].processedNotes
        /\ JobOf(r).failed_notes = run[r].failedNotes
        /\ run[r].processedNotes + run[r].failedNotes = run[r].i + Len(run[r].notesToDelete)

\* The loop of run r moves on from a batch only when every task of the batch
\* has settled, and in that step the job row gets the tallies (the step in
\* which the run is left because a call of its own threw is not such a step).
BatchStep(r) ==
    (run[r].pc = "await" /\ run'[r].i # run[r].i /\ run'[r].pc # "threw") =>
        /\ AllSettled(run[r])
        /\ run'[r].i = run[r].i + BATCH_SIZE
        /\ indexing_jobs'[run[r].jobId].processed_notes = run'[r].processedNotes
        /\ indexing_jobs'[run[r].jobId].failed_notes = run'[r].failedNotes
        /\ run'[r].processedNotes + run'[r].failedNotes =
              Min({run'[r].i, Len(LoopArray(r))}) + Len(run[r].notesToDelete)

\* The counters of a job are written only by its run and only while none of
\* the run's tasks is in flight.
CounterStep ==
    \A j \in 1..Len(indexing_jobs) :
        CountersWritten(j) =>
            \E r \in Runs : /\ run[r].jobId = j
                            /\ Active(r)
                            /\ InFlight(r) = {}

\* C24: within one run the batches are processed strictly one after the
\* other: the tasks in flight all belong to the current batch, at most
\* BATCH_SIZE of them; the next batch starts only once every task of the
\* current one has settled and its tallies are in the job row; and the job's
\* counters change only at such a boundary, never while a task is in flight.
C24_SequentialBatches ==
    /\ [](\A r \in Runs : BatchInvariant(r))
    /\ [][(\A r \in Runs : BatchStep(r)) /\ CounterStep]_vars

\* The second batch of a run is in flight, a task of it not yet settled, and
\* the job row holds the tallies of the first batch.
C24_Witness ==
    \E r \in Runs :
        /\ run[r].pc = "await" /\ run[r].i = BATCH_SIZE
        /\ InFlight(r) # {}
        /\ JobOf(r).processed_notes + JobOf(r).failed_notes = BATCH_SIZE
        /\ JobOf(r).failed_notes > 0

\* C25: startFullIndexing returns to its caller with the job id while the
\* processing is still going on: in the state in which the call returns,
\* getIndexingStatus for the returned job id still shows the job as running.
C25_ReturnsWhileRunning ==
    [][\A r \in Runs :
          (run[r].op = "full" /\ run[r].pc # "returned" /\ run'[r].pc = "returned") =>
              LET status == getIndexingStatus(indexing_jobs', Some(run'[r].jobId))
              IN status # NULL /\ status[1].status = "running"]_vars

\* C26: a tool call whose arguments the schema rejects performs no store,
\* schema-initialization, note-source or embedding operation at any point of
\* its handling, and it is answered with the 'Invalid arguments' message
\* that names the rejected fields.
C26_RejectedBeforeEffects ==
    (tool.pc # "idle" /\ tool.bad # {}) =>
        /\ tool.effects = {}
        /\ tool.pc = "returned" =>
              tool.reply = Some([kind |-> "Invalid arguments", fields |-> tool.bad])

\* C27: no note that is in the trash at the moment its body is fetched is
\* upserted by a run, also when it was moved to the trash after the run had
\* listed it: no task that fetched its note from the trash embeds or stores
\* it, and no row carries the trash as the folder its note was fetched in.
C27_TrashedNoteNotUpserted ==
    /\ \A r \in Runs : \A k \in 1..Len(run[r].tasks) :
          LET t == run[r].tasks[k]
          IN (t.details # NULL /\ t.details[1].folder = TrashFolder) =>
                /\ t.st \notin {"embed", "upsert"}
                /\ run[r].outcome[t.id] # "stored"
    /\ \A row \in notes : row.folder_path # Some(TrashFolder)

\* Some run has embedded note n and stored the embedding.
EmbeddedByARun(n) == \E r \in Runs : run[r].outcome[n] = "stored"

\* C28: in every reachable state, after any sequence of upsertNote calls,
\* runs and deletes, a stored note has its embedding if and only if it has
\* been embedded successfully at least once: the row of a note that a run
\* has embedded and stored has an embedding, and a row has an embedding only
\* if a run stored one or a client of upsertNote passed one.
C28_EmbeddingIffEmbedded ==
    \A n \in NoteIds : \A row \in RowsOf(notes, n) :
        /\ EmbeddedByARun(n) => row.embedding # NULL
        /\ row.embedding # NULL => (EmbeddedByARun(n) \/ directCalls > 0)

\* The string begins / ends with white space.
StartsWithWhiteSpace(str) == Len(str) > 0 /\ IsWhiteSpace(Head(str))
EndsWithWhiteSpace(str) == Len(str) > 0 /\ IsWhiteSpace(SubSeq(str, Len(str), Len(str)))

\* Every character of the string is white space.
AllWhiteSpace(str) == \A i \in 1..Len(str) : IsWhiteSpace(SubSeq(str, i, i))

\* C29 as stated: prepareTextForEmbedding(title, content) returns
\* title + "\n\n" + content for every title and content.
C29_TitleBlankLineContent ==
    textCall.pc = "returned" =>
        textCall.result = textCall.title \o "\n\n" \o textCall.content

\* C29 as amended: prepareTextForEmbedding(title, content) returns
\* title + "\n\n" + content with the white space at its two ends removed:
\* the result neither begins nor ends with white space, the joined text is
\* the result with only white space before and after it, and the result is
\* the joined text itself exactly when the title is not empty and does not
\* begin with white space and the content is not empty and does not end
\* with white space.
C29_TrimmedTitleBlankLineContent ==
    textCall.pc = "returned" =>
        LET joined == textCall.title \o "\n\n" \o textCall.content
            result == textCall.result
        IN /\ ~StartsWithWhiteSpace(result) /\ ~EndsWithWhiteSpace(result)
           /\ \E i \in 0..Len(joined) :
                 /\ i + Len(result) <= Len(joined)
                 /\ SubSeq(joined, i + 1, i + Len(result)) = result
                 /\ AllWhiteSpace(SubSeq(joined, 1, i))
                 /\ AllWhiteSpace(SubSeq(joined, i + Len(result) + 1, Len(joined)))
           /\ (result = joined) <=>
                 /\ textCall.title # "" /\ ~StartsWithWhiteSpace(textCall.title)
                 /\ textCall.content # "" /\ ~EndsWithWhiteSpace(textCall.content)

\* A call with an empty content has returned the title alone.
C29_Witness ==
    /\ textCall.pc = "returned"
    /\ textCall.title = "T" /\ textCall.content = ""
    /\ textCall.result = "T"

\* A call with the arguments of the repository's test has returned the
\* joined text.
C29_PlainWitness ==
    /\ textCall.pc = "returned"
    /\ textCall.title = "T 1" /\ textCall.content = "c d"
    /\ textCall.result = "T 1\n\nc d"

\* C30: after upsertNote(n) has succeeded it has returned a positive row id,
\* the id of the row of n, and getNoteByTitle(n.title), called next, returns
\* one row of the store, not null, whose title is n.title, also when several
\* rows have that title.
C30_UpsertThenGetByTitle ==
    /\ noteCall.pc \in {"upserted", "retrieved"} =>
          /\ noteCall.id > 0
          /\ \E row \in RowsOf(notes, noteCall.apple_note_id) :
                row.id = noteCall.id /\ row.title = noteCall.title
    /\ noteCall.pc = "retrieved" =>
          /\ noteCall.reply # NULL
          /\ noteCall.reply[1] \in notes
          /\ noteCall.reply[1].title = noteCall.title

\* The note was upserted over its own row, another row has the same title,
\* a third row has another title, and the query has returned.
C30_Witness ==
    /\ noteCall.pc = "retrieved"
    /\ noteCall.id \in 1..MaxNotes
    /\ Cardinality({r \in notes : r.title = noteCall.title}) > 1
    /\ \E r \in notes : r.title # noteCall.title
    /\ noteCall.reply # NULL

\* The ids with a row in a set of rows.
StoredIds(rows) == {n \in NoteIds : RowsOf(rows, n) # {}}

\* C31: when a sync returns with failed = 0 and the source did not change
\* during the run, the ids with a row in the store are exactly the ids the
\* source's summaries list.
C31_StoreMatchesSource ==
    \A r \in Runs :
        (run[r].op = "sync" /\ run[r].pc = "returned" /\ run[r].failedNotes = 0) =>
            StoredIds(run[r].endRows) = SummaryIds(run[r].endSource)

\* Sync r2 is the run that follows sync r1, r1 has returned with failed = 0,
\* and the source r2 sees is the source as r1 left it.
SecondSync(r1, r2) ==
    /\ r2 = r1 + 1
    /\ run[r1].op = "sync" /\ run[r1].pc = "returned" /\ run[r1].failedNotes = 0
    /\ run[r2].op = "sync"
    /\ SourceOf(r2) = run[r1].endSource

\* What the second sync does not do, at any point of its run: it calls the
\* embedding service for no note, upserts and deletes nothing, and every row
\* is what it was when the run was called, indexed_at included.
NoWork(r) ==
    /\ run[r].embedCalls = {}
    /\ \A n \in NoteIds : run[r].outcome[n] # "stored"
    /\ run[r].notesToDelete = << >>
    /\ Active(r) => notes = run[r].startRows
    /\ ~Active(r) => run[r].endRows = run[r].startRows

MetadataCurrent(row, src) ==
    row.title = src.title /\ row.folder_path = Some(src.folder)

\* C33 as stated: after a sync that returns with failed = 0, the source not
\* having changed during the run, every row has the title and the folder its
\* note has in the source, also for a note that was renamed or moved without
\* a change to its body.
C33_TitleFolderCurrent ==
    \A r \in Runs :
        (run[r].op = "sync" /\ run[r].pc = "returned" /\ run[r].failedNotes = 0) =>
            \A n \in NoteIds : \A row \in RowsOf(run[r].endRows, n) :
                MetadataCurrent(row, run[r].endSource[n])

\* C33 as amended: after such a sync every note the run upserted (a new note
\* or one whose body hash differed from the stored hash) has a row with the
\* source's current title and folder, and a note the run skipped because its
\* hash was unchanged keeps the row it had, with the title and folder of its
\* last upsert, also when it was renamed or moved since.
C33_UpsertedTitleFolderCurrent ==
    \A r \in Runs :
        (run[r].op = "sync" /\ run[r].pc = "returned" /\ run[r].failedNotes = 0) =>
            \A n \in NoteIds :
                /\ run[r].outcome[n] = "stored" =>
                      /\ RowsOf(run[r].endRows, n) # {}
                      /\ \A row \in RowsOf(run[r].endRows, n) :
                            MetadataCurrent(row, run[r].endSource[n])
                /\ run[r].outcome[n] = "skipped" =>
                      RowsOf(run[r].endRows, n) = RowsOf(run[r].startRows, n)

\* A sync has returned with failed = 0 after upserting one note and skipping
\* another that was renamed since it was stored.
C33_Witness ==
    \E r \in Runs :
        /\ run[r].op = "sync" /\ run[r].pc = "returned" /\ run[r].failedNotes = 0
        /\ \E n \in NoteIds : run[r].outcome[n] = "stored"
        /\ \E n \in NoteIds :
              /\ run[r].outcome[n] = "skipped"
              /\ \E row \in RowsOf(run[r].endRows, n) : row.title # run[r].endSource[n].title

\* Run r performs its delete step in this step.
DeleteStep(r) == run[r].op = "sync" /\ run[r].pc = "delete" /\ run'[r].pc = "delprogress"

\* C34: in a sync, the number added to processed for the deletion step is
\* the number of rows the run's delete operation removes from the store,
\* whatever else runs at the same time.
C34_DeletedRowsCounted ==
    [][\A r \in Runs :
          DeleteStep(r) =>
              run'[r].processedNotes - run[r].processedNotes
                  = Cardinality(notes) - Cardinality(notes')]_vars

\* SpecOverlap: runs overlap and single notes fail in them; the calls the
\* run itself awaits succeed. The store holds the rows and the job of an
\* earlier full run; of its notes the app has since kept one batch.
NextOverlap ==
    \/ \E r \in Runs : StartFullIndexing(r)
    \/ \E r \in Runs : StartSync(r)
    \/ \E r \in Runs : RunStep(r)
    \/ \E r \in Runs, k \in 1..BATCH_SIZE : TaskThrows(r, k)

InitOverlap ==
    /\ source = [n \in NoteIds |-> IF n <= BATCH_SIZE THEN InitSource[n] ELSE NoNote]
    /\ notes = UNION {IndexedRow(n) : n \in NoteIds}
    /\ notes_id_seq = MaxNotes
    /\ indexing_jobs = completeJob(updateJobProgress(<<NewJob(1, MaxNotes, 1)>>, 1, MaxNotes, 0),
                                   1, "completed", MaxNotes + 2)
    /\ now = MaxNotes + 3
    /\ run = [r \in Runs |-> IdleRun]
    /\ srcChanges = 0
    /\ directCalls = 0
    /\ statusCall = NoStatusCall
    /\ search = NoSearch
    /\ InitCalls

SpecOverlap == InitOverlap /\ [][NextOverlap]_vars

\* The runs that have been given a job.
RunsWithJob == {r \in Runs : run[r].jobId # 0}

\* The tally run r keeps of its own notes: one per settled task of its
\* batches, and one per id it asked the store to delete.
OwnProcessed(r) ==
    Cardinality(FulfilledNotes(r)) +
        (IF run[r].pc \in {"create", "delete"} THEN 0 ELSE Len(run[r].notesToDelete))
OwnFailed(r) == Cardinality(RejectedNotes(r))

\* The job row of run r holds what the run wrote last, and that is a count
\* of the run's own outcomes.
OwnCounters(r) ==
    /\ JobOf(r).processed_notes <= OwnProcessed(r)
    /\ JobOf(r).failed_notes <= OwnFailed(r)
    /\ (~Active(r) \/ run[r].pc = "complete") =>
          /\ JobOf(r).processed_notes = OwnProcessed(r)
          /\ JobOf(r).failed_notes = OwnFailed(r)

\* A step that changes the counters of job j is a step of the run that owns
\* j, and writes that run's tallies.
OwnWrite(j) ==
    CountersWritten(j) =>
        \E r \in Runs : /\ run[r].jobId = j
                        /\ run'[r] # run[r]
                        /\ indexing_jobs'[j].processed_notes = run'[r].processedNotes
                        /\ indexing_jobs'[j].failed_notes = run'[r].failedNotes

\* C35: overlapping runs get distinct job ids; the counters of a job are
\* written only by its own run and count only that run's notes; and a run
\* that returns leaves its job completed with processed + failed = total.
C35_JobsIsolated ==
    /\ [](\A r1 \in RunsWithJob, r2 \in RunsWithJob : r1 # r2 => run[r1].jobId # run[r2].jobId)
    /\ [](\A r \in RunsWithJob : OwnCounters(r))
    /\ [](\A r \in RunsWithJob :
            run[r].pc = "returned" =>
                /\ JobOf(r).status = "completed"
                /\ JobOf(r).processed_notes + JobOf(r).failed_notes = JobOf(r).total_notes)
    /\ [][\A j \in 1..Len(indexing_jobs) : OwnWrite(j)]_vars

\* Two runs that overlapped have both returned, each with notes of its own
\* that failed and notes that did not, and their tallies differ.
C35_Witness ==
    /\ \A r \in Runs : run[r].pc = "returned"
    /\ \A r \in Runs : JobOf(r).started_at < JobOf(CHOOSE q \in Runs : q # r).completed_at[1]
    /\ \E r1 \in Runs, r2 \in Runs :
          /\ JobOf(r1).failed_notes > 0 /\ JobOf(r1).processed_notes > 0
          /\ JobOf(r2).failed_notes # JobOf(r1).failed_notes

\* Job j across one step: its counters do not go down, and a completed job
\* is left as it is.
JobStep(j) ==
    /\ indexing_jobs'[j].processed_notes >= indexing_jobs[j].processed_notes
    /\ indexing_jobs'[j].failed_notes >= indexing_jobs[j].failed_notes
    /\ indexing_jobs[j].status = "completed" => indexing_jobs'[j] = indexing_jobs[j]

\* C36: the stored processed and failed counters of a job never decrease,
\* and once a job is completed no step of a full run or a sync changes its
\* status, its counters or its completed_at.
C36_CountersMonotoneCompletedFrozen ==
    [][\A j \in 1..Len(indexing_jobs) : JobStep(j)]_vars

\* A run has returned with both counters of its job above zero, and another
\* run that got its job later has written counters of its own since.
C36_Witness ==
    \E r1 \in RunsWithJob, r2 \in RunsWithJob :
        /\ run[r1].pc = "returned"
        /\ JobOf(r1).processed_notes > 0 /\ JobOf(r1).failed_notes > 0
        /\ JobOf(r2).started_at > JobOf(r1).completed_at[1]
        /\ JobOf(r2).processed_notes + JobOf(r2).failed_notes > 1

\* The rows the store held when run r started whose note the app does not
\* list any more when the run ends.
AbsentRows(r) ==
    {row \in run[r].startRows :
        \A n \in SummaryIds(run[r].endSource) : row.apple_note_id # Some(n)}

\* C37: a full run deletes no row: no step taken while a full run is in
\* progress removes an apple_note_id from the store, and a row whose note
\* the app no longer lists is in the store, unchanged, when the run returns.
C37_FullIndexKeepsRows ==
    /\ [](\A r \in Runs :
            (run[r].op = "full" /\ run[r].pc = "returned") =>
                /\ AbsentRows(r) \subseteq run[r].endRows
                /\ StoredIds(run[r].startRows) \subseteq StoredIds(run[r].endRows))
    /\ [][(\E r \in Runs : run[r].op = "full" /\ Active(r)) =>
              StoredIds(notes) \subseteq StoredIds(notes')]_vars

\* A full run that stored a note has returned, and the store still holds a
\* row of a note the app does not list.
C37_Witness ==
    \E r \in Runs :
        /\ run[r].op = "full" /\ run[r].pc = "returned"
        /\ \E n \in NoteIds : run[r].outcome[n] = "stored"
        /\ AbsentRows(r) # {}

\* The connection check of the current tool call has returned false.
CheckFailed ==
    /\ tool.pc \in {"dispatch", "returned"}
    /\ ~tool.dbReady
    /\ "schema" \notin tool.effects

\* C38: after a failed connection check index-notes, sync-notes,
\* search-notes and get-indexing-status answer 'Database not connected' and
\* call neither the indexer, the search, the embedding service nor a job
\* query, while list-notes, get-note and create-note are answered from the
\* Notes app; and dbInitialized becomes true only in the step in which
\* initializeSchema returns, which follows a successful connection check.
C38_NotConnected ==
    /\ []((tool.pc = "returned" /\ CheckFailed) =>
            /\ tool.name \in {"index-notes", "sync-notes", "search-notes", "get-indexing-status"} =>
                  /\ tool.reply = Some([kind |-> "Database not connected", fields |-> {}])
                  /\ tool.effects \cap {"indexer", "search", "embedding", "jobs", "source"} = {}
            /\ (tool.name \in {"list-notes", "get-note", "create-note"} /\ tool.bad = {}) =>
                  /\ tool.reply = Some([kind |-> "ok", fields |-> {}])
                  /\ "source" \in tool.effects
                  /\ tool.effects \cap {"indexer", "search", "embedding", "jobs", "schema"} = {})
    /\ [](dbInitialized => tool.pc \in {"idle", "dispatch", "returned"})
    /\ [][(dbInitialized' /\ ~dbInitialized) =>
              /\ tool.pc = "initializeSchema"
              /\ {"store", "schema"} \subseteq tool.effects
              /\ tool'.dbReady]_vars

\* sync-notes has been answered after a failed connection check.
C38_Witness ==
    /\ tool.pc = "returned" /\ CheckFailed
    /\ tool.name = "sync-notes"
    /\ ~dbInitialized

\* get-note has been answered from the Notes app after a failed connection
\* check.
C38_ServedWitness ==
    /\ tool.pc = "returned" /\ CheckFailed
    /\ tool.name = "get-note" /\ tool.bad = {}
    /\ tool.effects = {"store", "source"}

\* The flag is set and a later call is answered with the database.
C38_InitializedWitness ==
    /\ dbInitialized /\ tool.calls = 2 /\ tool.pc = "returned" /\ tool.dbReady
    /\ tool.name = "search-notes" /\ "search" \in tool.effects

====
